---- MODULE Spec2Model ----
(***************************************************************************)
(* Session and transaction orchestration of JuniperJunosModule             *)
(* (plugins/module_utils/juniper_junos_common.py).                         *)
(*                                                                         *)
(* One behaviour is one task: a constructed module instance on which the   *)
(* calling workflow invokes operations one after the other until the task  *)
(* ends through exit_json, fail_json or an exception nobody handles.       *)
(* Every operation is one action; the calls it makes on the device are     *)
(* written, in order, to `calls`.  The device is the environment: each     *)
(* call on it ends "ok" or raises one of the exception classes the code    *)
(* names.                                                                  *)
(***************************************************************************)
EXTENDS Integers, Sequences, FiniteSets, TLC

VARIABLES
    params,     \* self.params: the options of the task
    conn_type,  \* self.conn_type: "local", or "pyez" for the delegated path
    dev,        \* self.dev: "None", "Unopened" (created, open() pending) or "Device"
    config,     \* self.config: NoConfig or [mode, dev]
    pyez_conn,  \* the session held by the broker behind self._pyez_conn
    held,       \* successful lock/open-configuration calls not yet released
    destfile,   \* self.destfile: "None" until the first save to `dest`
    op,         \* the operation executed last, with its arguments
    prev,       \* summary of the operation executed before `op`
    calls,      \* device calls and reports made by `op`, in order
    files,      \* content of the local and of the remote file of a transfer
    fails,      \* messages of the fail_json invocations made by `op`, in order
    raised,     \* how `op` ended: "None" (returned) or the exception raised
    ret,        \* value returned by `op`
    outcome     \* [status, msg]: running / exited / failed / error

vars == <<params, conn_type, dev, config, pyez_conn, held, destfile, files, op,
          prev, calls, fails, raised, ret, outcome>>

None == "None"

\* A variant of the list of modes that lacks the ephemeral mode.
CONFIG_MODE_CHOICES_without_ephemeral == {"exclusive", "private", "dynamic", "batch"}

CONFIG_MODE_CHOICES == {"exclusive", "private", "dynamic", "batch", "ephemeral"}

NoConfig == [mode |-> None, dev |-> None]

\* Config(self.dev, mode=mode): the object keeps the Device it was built on.
Config(mode) == [mode |-> mode, dev |-> "current"]

Ev(call, arg, res) == [call |-> call, arg |-> arg, res |-> res]

Running == [status |-> "running", msg |-> <<>>]

\* Python values of the rollback id: None, a str (its characters) or an int.
NoneVal == [kind |-> "none", n |-> 0, s |-> <<>>]
StrVal(chars) == [kind |-> "str", n |-> 0, s |-> chars]
IntVal(n) == [kind |-> "int", n |-> n, s |-> <<>>]

Rescue == <<"r", "e", "s", "c", "u", "e">>
Bogus == <<"b", "o", "g", "u", "s">>

Digits == <<"0", "1", "2", "3", "4", "5", "6", "7", "8", "9">>

IsDigit(c) == \E i \in 1..Len(Digits) : Digits[i] = c

DigitVal(c) == (CHOOSE i \in 1..Len(Digits) : Digits[i] = c) - 1

\* str(n) of an int
RECURSIVE StrNat(_)
StrNat(n) == IF n < 10 THEN <<Digits[n + 1]>>
             ELSE Append(StrNat(n \div 10), Digits[(n % 10) + 1])

Str(n) == IF n < 0 THEN <<"-">> \o StrNat(0 - n) ELSE StrNat(n)

\* int(chars): an optional sign followed by decimal digits, else ValueError.
RECURSIVE NatOf(_)
NatOf(chars) ==
    IF chars = <<>> THEN 0
    ELSE 10 * NatOf(SubSeq(chars, 1, Len(chars) - 1)) + DigitVal(chars[Len(chars)])

int(chars) ==
    LET signed == chars # <<>> /\ chars[1] \in {"+", "-"}
        body == IF signed THEN Tail(chars) ELSE chars
    IN  IF body = <<>> \/ \E i \in 1..Len(body) : ~IsDigit(body[i])
        THEN [ok |-> FALSE, n |-> 0]
        ELSE [ok |-> TRUE,
              n |-> IF signed /\ chars[1] = "-" THEN 0 - NatOf(body) ELSE NatOf(body)]

(***************************************************************************)
(* The device.  A call on a connected handle ends in one of these; a call  *)
(* through a handle whose connection was closed cannot succeed.  Every     *)
(* operation below yields the set of states it can end in, one for each    *)
(* way the device may answer the calls it makes.                           *)
(***************************************************************************)
RpcOutcomes == {"ok", "ConnectError", "RpcError"}
OpenOutcomes == {"ok", "ConnectError"}
CloseOutcomes == {"ok", "ConnectError", "RpcError", "TimeoutExpiredError"}

OnHandle(handle, outcomes) ==
    IF handle = "closed" THEN outcomes \ {"ok"} ELSE outcomes

Raise(s, exc) == [s EXCEPT !.raised = exc]

\* try: ... except exc: pass
Swallow(s, exc) == IF s.raised = exc THEN Raise(s, None) ELSE s

AcquireCalls == {"lock", "rpc.open_configuration"}
ReleaseCalls == {"unlock", "rpc.close_configuration"}

\* A call on the device: it is written to `calls`, and the device keeps
\* count of the sessions acquired and not released.
Call(s, call, arg, res) ==
    [s EXCEPT !.calls = Append(@, Ev(call, arg, res)),
              !.held = IF res = "ok" /\ call \in AcquireCalls THEN @ + 1
                       ELSE IF res = "ok" /\ call \in ReleaseCalls THEN @ - 1
                       ELSE @]

RECURSIVE fail_json(_, _)
RECURSIVE close_configuration(_)

\* A variant of close() that forgets the handle only after the teardown
\* has succeeded.
close_teardown_first(s, raise_exceptions) ==
    IF s.dev = None THEN {s}
    ELSE
        LET handle == IF s.dev = "Device" THEN "connected" ELSE "unopened"
        IN  { LET s2 == Call(s, "dev.close", handle, res)
                  s3 == [s2 EXCEPT !.dev = None,
                                   !.config.dev = IF @ = "current" THEN "closed" ELSE @]
              IN  IF res \in {"ConnectError", "RpcError"}
                  THEN IF raise_exceptions THEN Raise(s2, res) ELSE s2
                  ELSE IF res = "ok" THEN s3 ELSE Raise(s2, res)
              : res \in CloseOutcomes }

(***************************************************************************)
(* close(), juniper_junos_common.py:1200-1222.                             *)
(***************************************************************************)
close(s, raise_exceptions) ==
    IF s.dev = None THEN {s}
    ELSE
        LET handle == IF s.dev = "Device" THEN "connected" ELSE "unopened"
            s1 == [s EXCEPT !.dev = None,
                            !.config.dev = IF @ = "current" THEN "closed" ELSE @]
        IN  { LET s2 == Call(s1, "dev.close", handle, res)
              IN  IF res \in {"ConnectError", "RpcError"}
                  THEN IF raise_exceptions THEN Raise(s2, res) ELSE s2
                  ELSE IF res = "ok" THEN s2 ELSE Raise(s2, res)
              : res \in CloseOutcomes }

(***************************************************************************)
(* AnsibleModule.exit_json / fail_json: emit the result and sys.exit().    *)
(***************************************************************************)
Report(s, status, msg) ==
    [s EXCEPT !.calls = Append(@, Ev(status, None, "ok")),
              !.outcome = [status |-> status, msg |-> msg],
              !.raised = "SystemExit"]

\* A variant of fail_json that closes the connection before the session.
fail_json_connection_first(s, msg) ==
    UNION { IF s2.raised # None THEN {s2}
            ELSE { IF s3.raised # None THEN s3 ELSE Report(s3, "fail_json", msg)
                   : s3 \in close_configuration(s2) }
            : s2 \in { Swallow(s1, "TimeoutExpiredError")
                       : s1 \in close([s EXCEPT !.fails = Append(@, msg)], FALSE) } }

(***************************************************************************)
(* exit_json(), juniper_junos_common.py:791-808.                           *)
(***************************************************************************)
exit_json(s) ==
    { IF s2.raised # None THEN s2 ELSE Report(s2, "exit_json", <<>>)
      : s2 \in { Swallow(s1, "TimeoutExpiredError")
                 : s1 \in IF s.conn_type = "local" THEN close(s, FALSE) ELSE {s} } }

(***************************************************************************)
(* fail_json(), juniper_junos_common.py:810-829.                           *)
(***************************************************************************)
fail_json(s, msg) ==
    UNION { IF s1.raised # None THEN {s1}
            ELSE { IF s3.raised # None THEN s3 ELSE Report(s3, "fail_json", msg)
                   : s3 \in { Swallow(s2, "TimeoutExpiredError")
                              : s2 \in close(s1, FALSE) } }
            : s1 \in close_configuration([s EXCEPT !.fails = Append(@, msg)]) }

(***************************************************************************)
(* The ignore_warning argument: None, a bool, a str or a list of str.      *)
(***************************************************************************)
PyNone == [type |-> "NoneType", b |-> FALSE, list |-> <<>>]

Bool(b) == [type |-> "bool", b |-> b, list |-> <<>>]

String(str) == [type |-> "str", b |-> FALSE, list |-> <<str>>]

List(list) == [type |-> "list", b |-> FALSE, list |-> list]

UncommittedChanges == "uncommitted changes will be discarded on exit"

\* open_configuration(), lines 1237-1246: the value handed on as the
\* ignore_warning of the open-configuration call.
ignore_warn(ignore_warning) ==
    IF ignore_warning.type = "bool" THEN ignore_warning
    ELSE IF ignore_warning.type \in {"str", "list"}
    THEN List(<<UncommittedChanges>> \o ignore_warning.list)
    ELSE List(<<UncommittedChanges>>)

\* The arguments of an open-configuration call: the database it opens and
\* its ignore_warning.
Database(name, ignore_warning) == [database |-> name, ignore_warning |-> ignore_warning]

(***************************************************************************)
(* The broker behind self._pyez_conn (plugins/connection, not part of the  *)
(* sources at hand): it keeps its own session, opened and closed as        *)
(* section 4.2 of the specification describes; an error on the broker side *)
(* reaches the module as a ConnectionError.                                *)
(***************************************************************************)
pyez_open_configuration(s, mode, ignore_warning) ==
    LET s0 == Call(s, "_pyez_conn.open_configuration",
                   Database(mode, ignore_warning), "ok")
    IN  IF s0.pyez_conn # None THEN {s0}
        ELSE IF mode \notin CONFIG_MODE_CHOICES THEN {Raise(s0, "ConnectionError")}
        ELSE { LET s1 == Call(s0, IF mode = "exclusive" THEN "lock"
                                  ELSE "rpc.open_configuration",
                              IF mode = "exclusive" THEN mode
                              ELSE Database(mode, ignore_warning), res)
               IN  IF res = "ok"
                   THEN [s1 EXCEPT !.pyez_conn = mode]
                   ELSE Raise(s1, "ConnectionError")
               : res \in RpcOutcomes }

\* self._pyez_conn before __init__ has assigned it (line 704).
Unset == "unset"

pyez_close_configuration(s) ==
    LET s0 == Call(s, "_pyez_conn.close_configuration", None, "ok")
    IN  IF s.pyez_conn = Unset THEN {Raise(s, "AttributeError")}
        ELSE IF s0.pyez_conn = None THEN {s0}
        ELSE { LET s1 == Call([s0 EXCEPT !.pyez_conn = None],
                              IF s0.pyez_conn = "exclusive" THEN "unlock"
                              ELSE "rpc.close_configuration",
                              s0.pyez_conn, res)
               IN  IF res = "ok" THEN s1 ELSE Raise(s1, "ConnectionError")
               : res \in RpcOutcomes }

(***************************************************************************)
(* open(), juniper_junos_common.py:1166-1198.                              *)
(***************************************************************************)
open(s) ==
    LET s1 == [s EXCEPT !.dev = "Unopened",
                        !.config.dev = IF @ = "current" THEN "old" ELSE @]
    IN  UNION { LET s2 == Call(s1, "dev.open", None, res)
                IN  IF res = "ok"
                    THEN {[s2 EXCEPT !.dev = "Device"]}
                    ELSE fail_json(s2, <<"Unable to make a PyEZ connection", res>>)
                : res \in OpenOutcomes }

\* A variant of open_configuration that records the session before it is
\* acquired.
open_configuration_records_first(s, mode, ignore_warning, ephemeral_instance) ==
    IF s.conn_type # "local"
    THEN pyez_open_configuration(s, mode, ignore_warn(ignore_warning))
    ELSE IF s.config # NoConfig THEN {s}
    ELSE IF mode \notin CONFIG_MODE_CHOICES
    THEN fail_json(s, <<"Invalid configuration mode", mode>>)
    ELSE IF mode # "ephemeral" /\ ephemeral_instance # None
    THEN fail_json(s, <<"Ephemeral instance is specified while the mode is not ephemeral">>)
    ELSE
        UNION { IF s1.raised # None THEN {s1}
                ELSE UNION {
                    LET s2 == Call([s1 EXCEPT !.config = Config(mode)],
                                   IF mode = "exclusive" THEN "lock"
                                   ELSE "rpc.open_configuration",
                                   IF mode = "exclusive" THEN mode
                                   ELSE Database(IF mode = "ephemeral"
                                                    /\ ephemeral_instance # None
                                                 THEN ephemeral_instance ELSE mode,
                                                 ignore_warn(ignore_warning)),
                                   res)
                    IN  IF res \in {"ConnectError", "RpcError"}
                        THEN fail_json(s2, <<"Unable to open the configuration in mode",
                                             mode, res>>)
                        ELSE {s2}
                    : res \in RpcOutcomes }
                : s1 \in IF s.dev = None THEN open(s) ELSE {s} }

\* A variant of open_configuration without the `self.config is None` test.
open_configuration_unguarded(s, mode, ignore_warning, ephemeral_instance) ==
    IF s.conn_type # "local"
    THEN pyez_open_configuration(s, mode, ignore_warn(ignore_warning))
    ELSE IF mode \notin CONFIG_MODE_CHOICES
    THEN fail_json(s, <<"Invalid configuration mode", mode>>)
    ELSE
        UNION { IF s1.raised # None THEN {s1}
                ELSE UNION {
                    LET s2 == Call(s1, IF mode = "exclusive" THEN "lock"
                                       ELSE "rpc.open_configuration",
                                   IF mode = "exclusive" THEN mode
                                   ELSE Database(mode, ignore_warn(ignore_warning)),
                                   res)
                    IN  IF res \in {"ConnectError", "RpcError"}
                        THEN fail_json(s2, <<"Unable to open the configuration in mode",
                                             mode, res>>)
                        ELSE {[s2 EXCEPT !.config = Config(mode)]}
                    : res \in RpcOutcomes }
                : s1 \in IF s.dev = None THEN open(s) ELSE {s} }

(***************************************************************************)
(* open_configuration(), juniper_junos_common.py:1228-1299.                *)
(***************************************************************************)
open_configuration(s, mode, ignore_warning, ephemeral_instance) ==
    IF s.conn_type # "local"
    THEN pyez_open_configuration(s, mode, ignore_warn(ignore_warning))
    ELSE IF s.config # NoConfig THEN {s}
    ELSE IF mode \notin CONFIG_MODE_CHOICES
    THEN fail_json(s, <<"Invalid configuration mode", mode>>)
    ELSE IF mode # "ephemeral" /\ ephemeral_instance # None
    THEN fail_json(s, <<"Ephemeral instance is specified while the mode is not ephemeral">>)
    ELSE
        UNION { IF s1.raised # None THEN {s1}
                ELSE UNION {
                    LET s2 == Call(s1, IF mode = "exclusive" THEN "lock"
                                       ELSE "rpc.open_configuration",
                                   IF mode = "exclusive" THEN mode
                                   ELSE Database(IF mode = "ephemeral"
                                                    /\ ephemeral_instance # None
                                                 THEN ephemeral_instance ELSE mode,
                                                 ignore_warn(ignore_warning)),
                                   res)
                    IN  IF res \in {"ConnectError", "RpcError"}
                        THEN fail_json(s2, <<"Unable to open the configuration in mode",
                                             mode, res>>)
                        ELSE {[s2 EXCEPT !.config = Config(mode)]}
                    : res \in RpcOutcomes }
                : s1 \in IF s.dev = None THEN open(s) ELSE {s} }

\* A variant of close_configuration that forgets the session only when the
\* teardown fails.
close_configuration_keeps_config(s) ==
    IF s.conn_type # "local" THEN pyez_close_configuration(s)
    ELSE IF s.config = NoConfig THEN {s}
    ELSE UNION {
        LET s2 == Call(s, IF s.config.mode = "exclusive" THEN "unlock"
                          ELSE "rpc.close_configuration", s.config.mode, res)
        IN  IF res \in {"ConnectError", "RpcError"}
            THEN fail_json([s2 EXCEPT !.config = NoConfig],
                           <<"Unable to close the configuration", res>>)
            ELSE {s2}
        : res \in IF s.dev = None \/ s.config.dev # "current"
                  THEN RpcOutcomes \ {"ok"} ELSE RpcOutcomes }

\* A variant of close_configuration that attempts a failed release a second
\* time before it reports the failure.
close_configuration_retry(s) ==
    IF s.conn_type # "local" THEN pyez_close_configuration(s)
    ELSE IF s.config = NoConfig THEN {s}
    ELSE
        LET cfg == s.config
            s1 == [s EXCEPT !.config = NoConfig]
            release == IF cfg.mode = "exclusive" THEN "unlock"
                       ELSE "rpc.close_configuration"
        IN  IF cfg.mode # "exclusive" /\ s1.dev = None
            THEN {Raise(s1, "AttributeError")}
            ELSE UNION {
                IF res \in {"ConnectError", "RpcError"}
                THEN fail_json(Call(Call(s1, release, cfg.mode, res),
                                    release, cfg.mode, res),
                               <<"Unable to close the configuration", res>>)
                ELSE {Call(s1, release, cfg.mode, res)}
                : res \in IF cfg.mode = "exclusive"
                          THEN OnHandle(cfg.dev, RpcOutcomes) ELSE RpcOutcomes }

\* A variant of close_configuration that releases a session of every mode
\* with an unlock.
close_configuration_always_unlock(s) ==
    IF s.conn_type # "local" THEN pyez_close_configuration(s)
    ELSE IF s.config = NoConfig THEN {s}
    ELSE
        LET cfg == s.config
            s1 == [s EXCEPT !.config = NoConfig]
        IN  UNION {
                LET s2 == Call(s1, "unlock", cfg.mode, res)
                IN  IF res \in {"ConnectError", "RpcError"}
                    THEN fail_json(s2, <<"Unable to close the configuration", res>>)
                    ELSE {s2}
                : res \in OnHandle(cfg.dev, RpcOutcomes) }

\* A variant of close_configuration that forgets the session without
\* releasing it on the device.
close_configuration_no_release(s) ==
    IF s.conn_type # "local" THEN pyez_close_configuration(s)
    ELSE {[s EXCEPT !.config = NoConfig]}

(***************************************************************************)
(* close_configuration(), juniper_junos_common.py:1301-1326.               *)
(***************************************************************************)
close_configuration(s) ==
    IF s.conn_type # "local" THEN pyez_close_configuration(s)
    ELSE IF s.config = NoConfig THEN {s}
    ELSE
        LET cfg == s.config
            s1 == [s EXCEPT !.config = NoConfig]
        IN  IF cfg.mode # "exclusive" /\ s1.dev = None
            THEN {Raise(s1, "AttributeError")}   \* self.dev.rpc with self.dev None
            ELSE UNION {
                LET s2 == Call(s1, IF cfg.mode = "exclusive" THEN "unlock"
                                   ELSE "rpc.close_configuration", cfg.mode, res)
                IN  IF res \in {"ConnectError", "RpcError"}
                    THEN fail_json(s2, <<"Unable to close the configuration", res>>)
                    ELSE {s2}
                : res \in IF cfg.mode = "exclusive"
                          THEN OnHandle(cfg.dev, RpcOutcomes) ELSE RpcOutcomes }

(***************************************************************************)
(* parse_rollback_option(), juniper_junos_common.py:1133-1164.             *)
(* self.params["rollback"] is a str or None.                               *)
(***************************************************************************)
MinRollbackId == 0
MaxRollbackId == 49

InvalidRollback(rollback) ==
    <<"The value of the rollback option is invalid", rollback>>

parse_rollback_option(s) ==
    LET rollback == s.params.rollback IN
    IF rollback.kind = "none" \/ rollback = StrVal(Rescue)
    THEN {[s EXCEPT !.ret = <<rollback>>]}
    ELSE IF rollback.kind = "str"
    THEN
        LET int_val == int(rollback.s)
        IN  IF int_val.ok /\ int_val.n >= MinRollbackId /\ int_val.n <= MaxRollbackId
            THEN {[s EXCEPT !.ret = <<IntVal(int_val.n)>>]}
            ELSE fail_json(s, InvalidRollback(rollback))
    ELSE fail_json(s, InvalidRollback(rollback))

NotOpen == <<"The device or configuration is not open.">>

\* A call made through self.config (the Config object and its Device).
ConfigCall(s, call, arg, msg) ==
    UNION { LET s1 == Call(s, call, arg, res)
            IN  IF res \in {"ConnectError", "RpcError"}
                THEN fail_json(s1, <<msg, res>>)
                ELSE {s1}
            : res \in OnHandle(s.config.dev, RpcOutcomes) }

\* load / check / diff / commit / rollback forwarded to the broker, which
\* needs an open session for them and validates the rollback id (section 4.4
\* of the specification).
pyez_transaction(s, forward, call, arg, valid) ==
    LET s0 == Call(s, "_pyez_conn." \o forward, arg, "ok")
    IN  IF s0.pyez_conn = None \/ ~valid THEN {Raise(s0, "ConnectionError")}
        ELSE { LET s1 == Call(s0, call, arg, res)
               IN  IF res = "ok" THEN s1 ELSE Raise(s1, "ConnectionError")
               : res \in RpcOutcomes }

\* A variant of rollback_configuration whose range test is off by one.
rollback_configuration_off_by_one(s, id) ==
    IF s.conn_type # "local"
    THEN pyez_transaction(s, "rollback_configuration",
                          IF id = StrVal(Rescue) THEN "config.rescue"
                          ELSE "config.rollback",
                          IF id = StrVal(Rescue) THEN "reload" ELSE ToString(id.n),
                          id = StrVal(Rescue)
                              \/ (/\ id.kind = "int"
                                  /\ id.n >= MinRollbackId
                                  /\ id.n <= MaxRollbackId))
    ELSE IF s.dev = None \/ s.config = NoConfig THEN fail_json(s, NotOpen)
    ELSE IF id = StrVal(Rescue)
    THEN ConfigCall(s, "config.rescue", "reload",
                    "Unable to load the rescue configuraton")
    ELSE IF id.kind # "int"
    THEN {Raise(s, "TypeError")}
    ELSE IF id.n >= MinRollbackId /\ id.n <= MaxRollbackId + 1
    THEN ConfigCall(s, "config.rollback", ToString(id.n),
                    "Unable to load the rollback configuraton")
    ELSE fail_json(s, <<"Unrecognized rollback configuraton value", ToString(id.n)>>)

(***************************************************************************)
(* rollback_configuration(), juniper_junos_common.py:1474-1522.  `id` is   *)
(* an int or the str "rescue".                                             *)
(***************************************************************************)
rollback_configuration(s, id) ==
    LET arg == IF id.kind = "int" THEN ToString(id.n) ELSE "str"
    IN  IF s.conn_type # "local"
        THEN pyez_transaction(s, "rollback_configuration",
                              IF id = StrVal(Rescue) THEN "config.rescue"
                              ELSE "config.rollback",
                              IF id = StrVal(Rescue) THEN "reload" ELSE arg,
                              id = StrVal(Rescue)
                                  \/ (/\ id.kind = "int"
                                      /\ id.n >= MinRollbackId
                                      /\ id.n <= MaxRollbackId))
        ELSE IF s.dev = None \/ s.config = NoConfig THEN fail_json(s, NotOpen)
        ELSE IF id = StrVal(Rescue)
        THEN ConfigCall(s, "config.rescue", "reload",
                        "Unable to load the rescue configuraton")
        ELSE IF id.kind # "int"
        THEN {Raise(s, "TypeError")}   \* id >= 0 with id a str
        ELSE IF id.n >= MinRollbackId /\ id.n <= MaxRollbackId
        THEN ConfigCall(s, "config.rollback", arg,
                        "Unable to load the rollback configuraton")
        ELSE fail_json(s, <<"Unrecognized rollback configuraton value", arg>>)

(***************************************************************************)
(* check_configuration(), juniper_junos_common.py:1524-1546.               *)
(***************************************************************************)
check_configuration(s) ==
    IF s.conn_type # "local"
    THEN pyez_transaction(s, "check_configuration", "config.commit_check", None, TRUE)
    ELSE IF s.dev = None \/ s.config = NoConfig THEN fail_json(s, NotOpen)
    ELSE ConfigCall(s, "config.commit_check", None,
                    "Failure checking the configuraton")

(***************************************************************************)
(* diff_configuration(), juniper_junos_common.py:1548-1571.                *)
(***************************************************************************)
diff_configuration(s) ==
    IF s.conn_type # "local"
    THEN pyez_transaction(s, "diff_configuration", "config.diff", "rb_id=0", TRUE)
    ELSE IF s.dev = None \/ s.config = NoConfig THEN fail_json(s, NotOpen)
    ELSE ConfigCall(s, "config.diff", "rb_id=0",
                    "Failure diffing the configuraton")

(***************************************************************************)
(* load_configuration(), juniper_junos_common.py:1573-1655.                *)
(***************************************************************************)
load_configuration(s, action) ==
    IF s.conn_type = "local" /\ (s.dev = None \/ s.config = NoConfig)
    THEN fail_json(s, NotOpen)
    ELSE IF s.conn_type # "local"
    THEN pyez_transaction(s, "load_configuration", "config.load", action, TRUE)
    ELSE ConfigCall(s, "config.load", action, "Failure loading the configuraton")

(***************************************************************************)
(* commit_configuration(), juniper_junos_common.py:1657-1715.              *)
(***************************************************************************)
\* The default of the timeout argument and of the connection's timeout option.
DefaultTimeout == 30

\* The timeout the caller passes to commit_configuration, or leaves out.
NoTimeout == [given |-> FALSE, value |-> DefaultTimeout]

Timeout(value) == [given |-> TRUE, value |-> value]

\* self.dev.timeout: open() sets it to the timeout option of the connection.
dev_timeout(s) == s.params.timeout

commit_configuration(s, timeout) ==
    IF s.conn_type = "local" /\ s.dev = None
    THEN {Raise(s, "AttributeError")}   \* self.dev.timeout with self.dev None
    ELSE IF s.conn_type # "local"
    THEN pyez_transaction(s, "commit_configuration", "config.commit", timeout, TRUE)
    ELSE IF s.dev = None \/ s.config = NoConfig THEN fail_json(s, NotOpen)
    ELSE ConfigCall(s, "config.commit",
                    IF dev_timeout(s) # 0 THEN dev_timeout(s) ELSE timeout,
                    "Failure committing the configuraton")

(***************************************************************************)
(* The transfer engine.  One local and one remote path; a file is absent   *)
(* or holds one of a few contents.                                         *)
(***************************************************************************)
Absent == "absent"
Contents == {"v1", "v2", "v3"}

\* hashlib.md5().hexdigest() of a content, juniper_junos_common.py:1969-1974.
hexdigest(content) == "md5(" \o content \o ")"

(***************************************************************************)
(* local_md5(), juniper_junos_common.py:1976-1995.  The checksum is left   *)
(* in `ret`.                                                               *)
(***************************************************************************)
local_md5(s, action) ==
    { IF err = "ok"
      THEN [Call(s, "local_md5", action, hexdigest(s.files.local))
               EXCEPT !.ret = <<hexdigest(s.files.local)>>]
      ELSE IF err = "No such file" /\ action = "get"
      THEN [Call(s, "local_md5", action, "no_file") EXCEPT !.ret = <<"no_file">>]
      ELSE Raise(Call(s, "local_md5", action, err), "IOError")
      : err \in IF s.files.local = Absent THEN {"No such file"}
                ELSE {"ok", "Permission denied"} }

\* A variant of remote_md5 that maps a missing file to "no_file" whatever
\* the action is.
remote_md5_any_action(s, action) ==
    IF s.conn_type = "local" /\ s.dev = None
    THEN {Raise(s, "AttributeError")}
    ELSE
        { IF err = "ok"
          THEN [Call(s, "get_checksum_information", action, hexdigest(s.files.remote))
                   EXCEPT !.ret = <<hexdigest(s.files.remote)>>]
          ELSE IF err = "No such file or directory"
          THEN [Call(s, "get_checksum_information", action, "no_file")
                   EXCEPT !.ret = <<"no_file">>]
          ELSE Raise(Call(s, "get_checksum_information", action, err),
                     IF s.conn_type = "local" THEN "RpcError" ELSE "ConnectionError")
          : err \in IF s.files.remote = Absent \/ s.dev = "Unopened"
                    THEN {"No such file or directory", "timeout"}
                    ELSE {"ok", "timeout"} }

(***************************************************************************)
(* remote_md5(), juniper_junos_common.py:1997-2014.                        *)
(***************************************************************************)
remote_md5(s, action) ==
    IF s.conn_type = "local" /\ s.dev = None
    THEN {Raise(s, "AttributeError")}   \* self.dev.rpc with self.dev None
    ELSE
        { IF err = "ok"
          THEN [Call(s, "get_checksum_information", action, hexdigest(s.files.remote))
                   EXCEPT !.ret = <<hexdigest(s.files.remote)>>]
          ELSE IF err = "No such file or directory" /\ action = "put"
          THEN [Call(s, "get_checksum_information", action, "no_file")
                   EXCEPT !.ret = <<"no_file">>]
          ELSE Raise(Call(s, "get_checksum_information", action, err),
                     IF s.conn_type = "local" THEN "RpcError" ELSE "ConnectionError")
          : err \in IF s.files.remote = Absent \/ s.dev = "Unopened"
                    THEN {"No such file or directory", "timeout"}
                    ELSE {"ok", "timeout"} }

\* SCP / FTP put and get, on the device handle or through the broker: the
\* call returns with the destination holding the source's content, another
\* content or what it held before, or it raises.
Transfer(s, transport, action) ==
    LET call == transport \o "." \o action
        src  == IF action = "put" THEN s.files.local ELSE s.files.remote
        dst  == IF action = "put" THEN s.files.remote ELSE s.files.local
    IN  IF s.conn_type = "local" /\ s.dev = None
        THEN {Raise(s, "AttributeError")}
        ELSE { LET s1 == Call(s, call, IF after = src THEN "copied"
                                       ELSE IF after = dst THEN "nothing written"
                                       ELSE "corrupted", "ok")
               IN  IF action = "put" THEN [s1 EXCEPT !.files.remote = after]
                   ELSE [s1 EXCEPT !.files.local = after]
               : after \in Contents \cup {dst} }
             \cup {Raise(Call(s, call, None, "error"), "TransportError")}

MD5Differ(local_checksum, remote_checksum) ==
    <<"Transfer failed (different MD5 between local and remote)",
      local_checksum, remote_checksum>>

AlreadyPresent == <<"File already present, skipping the scp", FALSE>>

PushedOK == <<"File pushed OK", TRUE>>

\* A variant of the verified put that reports success without comparing the
\* checksum computed after the transfer.
file_copy_put_unchecked(s, transport) ==
    UNION { IF s1.raised # None THEN {s1}
            ELSE UNION { IF s2.raised # None THEN {s2}
                         ELSE IF s2.ret[1] = "no_file" \/ s2.ret[1] # s1.ret[1]
                         THEN UNION { IF s3.raised # None THEN {s3}
                                      ELSE { IF s4.raised # None THEN s4
                                             ELSE [s4 EXCEPT !.ret = PushedOK]
                                             : s4 \in remote_md5(s3, "put") }
                                      : s3 \in Transfer(s2, transport, "put") }
                         ELSE {[s2 EXCEPT !.ret = AlreadyPresent]}
                         : s2 \in remote_md5(s1, "put") }
            : s1 \in local_md5(s, "put") }

(***************************************************************************)
(* scp_file_copy_put() and ftp_file_copy_put(),                            *)
(* juniper_junos_common.py:2016-2054 and 2072-2110: the same procedure     *)
(* over the two transports.                                                *)
(***************************************************************************)
file_copy_put(s, transport) ==
    UNION { IF s1.raised # None THEN {s1}
            ELSE LET local_checksum == s1.ret[1] IN
                 UNION { IF s2.raised # None THEN {s2}
                         ELSE IF s2.ret[1] = "no_file" \/ s2.ret[1] # local_checksum
                         THEN UNION { IF s3.raised # None THEN {s3}
                                      ELSE UNION {
                                          IF s4.raised # None THEN {s4}
                                          ELSE IF s4.ret[1] # local_checksum
                                          THEN fail_json(s4, MD5Differ(local_checksum,
                                                                       s4.ret[1]))
                                          ELSE {[s4 EXCEPT !.ret = PushedOK]}
                                          : s4 \in remote_md5(s3, "put") }
                                      : s3 \in Transfer(s2, transport, "put") }
                         ELSE {[s2 EXCEPT !.ret = AlreadyPresent]}
                         : s2 \in remote_md5(s1, "put") }
            : s1 \in local_md5(s, "put") }

scp_file_copy_put(s) == file_copy_put(s, "scp")

ftp_file_copy_put(s) == file_copy_put(s, "ftp")

\* A variant of the verified get that transfers whatever the checksums are.
file_copy_get_always(s, transport) ==
    UNION { IF s1.raised # None THEN {s1}
            ELSE LET remote_checksum == s1.ret[1] IN
                 UNION { IF s2.raised # None THEN {s2}
                         ELSE UNION { IF s3.raised # None THEN {s3}
                                      ELSE UNION {
                                          IF s4.raised # None THEN {s4}
                                          ELSE IF remote_checksum # s4.ret[1]
                                          THEN fail_json(s4, MD5Differ(s4.ret[1],
                                                                       remote_checksum))
                                          ELSE {[s4 EXCEPT !.ret = PushedOK]}
                                          : s4 \in local_md5(s3, "get") }
                                      : s3 \in Transfer(s2, transport, "get") }
                         : s2 \in local_md5(s1, "get") }
            : s1 \in remote_md5(s, "get") }

(***************************************************************************)
(* scp_file_copy_get() and ftp_file_copy_get(),                            *)
(* juniper_junos_common.py:2134-2169 and 2186-2221.                        *)
(***************************************************************************)
file_copy_get(s, transport) ==
    UNION { IF s1.raised # None THEN {s1}
            ELSE LET remote_checksum == s1.ret[1] IN
                 UNION { IF s2.raised # None THEN {s2}
                         ELSE IF s2.ret[1] = "no_file" \/ s2.ret[1] # remote_checksum
                         THEN UNION { IF s3.raised # None THEN {s3}
                                      ELSE UNION {
                                          IF s4.raised # None THEN {s4}
                                          ELSE IF remote_checksum # s4.ret[1]
                                          THEN fail_json(s4, MD5Differ(s4.ret[1],
                                                                       remote_checksum))
                                          ELSE {[s4 EXCEPT !.ret = PushedOK]}
                                          : s4 \in local_md5(s3, "get") }
                                      : s3 \in Transfer(s2, transport, "get") }
                         ELSE {[s2 EXCEPT !.ret = AlreadyPresent]}
                         : s2 \in local_md5(s1, "get") }
            : s1 \in remote_md5(s, "get") }

scp_file_copy_get(s) == file_copy_get(s, "scp")

ftp_file_copy_get(s) == file_copy_get(s, "ftp")

(***************************************************************************)
(* The transfers without checksum, juniper_junos_common.py:2056-2070,      *)
(* 2112-2132, 2171-2184 and 2223-2242.  On the local path the transfer     *)
(* runs inside try / except Exception; the call on the broker does not.    *)
(* FTP's put and get return whether the file was written.                  *)
(***************************************************************************)
TransferFailed == <<"Transfer failed", FALSE>>

Error(e) == <<"Error: " \o e, FALSE>>

\* What FTP's put / get returned: the file was written or not.
result(s) == s.calls[Len(s.calls)].arg # "nothing written"

scp_file_copy_put_without_checksum(s) ==
    { IF s1.raised = None THEN [s1 EXCEPT !.ret = PushedOK]
      ELSE IF s.conn_type = "local"
      THEN [s1 EXCEPT !.raised = None, !.ret = Error(s1.raised)]
      ELSE s1
      : s1 \in Transfer(s, "scp", "put") }

ftp_file_copy_put_without_checksum(s) ==
    { IF s1.raised = None
      THEN [s1 EXCEPT !.ret = IF result(s1) THEN PushedOK ELSE TransferFailed]
      ELSE IF s.conn_type = "local"
      THEN [s1 EXCEPT !.raised = None, !.ret = Error(s1.raised)]
      ELSE s1
      : s1 \in Transfer(s, "ftp", "put") }

scp_file_copy_get_without_checksum(s) ==
    { IF s1.raised = None THEN [s1 EXCEPT !.ret = PushedOK]
      ELSE IF s.conn_type = "local"
      THEN [s1 EXCEPT !.raised = None, !.ret = Error(s1.raised)]
      ELSE s1
      : s1 \in Transfer(s, "scp", "get") }

ftp_file_copy_get_without_checksum(s) ==
    { IF s1.raised = None
      THEN [s1 EXCEPT !.ret = IF result(s1) THEN PushedOK ELSE TransferFailed]
      ELSE IF s.conn_type = "local"
      THEN [s1 EXCEPT !.raised = None, !.ret = Error(s1.raised)]
      ELSE s1
      : s1 \in Transfer(s, "ftp", "get") }

(***************************************************************************)
(* The rpc module, plugins/modules/rpc.py main().  The task gives a list   *)
(* of RPCs with optional lists of formats, kwargs and attrs; no filter, no *)
(* dest and no dest_dir, and return_output is left at its default.         *)
(***************************************************************************)
RPC_OUTPUT_FORMAT_CHOICES == {"text", "xml", "json"}

\* An option holding a list: absent (None), or the list given.
NotGiven == [given |-> FALSE, list |-> <<>>]

Given(list) == [given |-> TRUE, list |-> list]

\* The local variable resp before its first assignment.
Unbound == [type |-> "unbound", of |-> 0]

\* What a call on the device can return: True, an Element or dict, or a
\* value of another type.
ResponseTypes == {"True", "Element", "str"}

\* How a call on the broker can fail: a ConnectionError whose text names
\* RpcError, names ConnectError, or names neither.
BrokerErrors == {"RpcError", "ConnectError", "ConnectionError"}

\* JuniperJunosModule(...), juniper_junos_common.py:593-704.
JuniperJunosModule(s) ==
    IF s.conn_type = "local" THEN open(s)
    ELSE {Call([s EXCEPT !.pyez_conn = IF @ = Unset THEN None ELSE @],
               "get_connection", None, "ok")}

\* rpc_string.replace("_", "-")
replace(rpc_string) == IF rpc_string = "get_config" THEN "get-config" ELSE rpc_string

\* The checks of main() on its options, in order: the message of the first
\* one that fails, or None.
validate(p) ==
    IF ~p.rpcs.given THEN <<"The rpcs option must have a value.">>
    ELSE
        LET rpcs == p.rpcs.list
            formats == IF p.formats.given THEN p.formats.list ELSE <<"xml">>
        IN  IF \E i \in 1..Len(formats) : formats[i] \notin RPC_OUTPUT_FORMAT_CHOICES
            THEN <<"The value in formats is invalid.">>
            ELSE IF Len(formats) # 1 /\ Len(formats) # Len(rpcs)
            THEN <<"The formats option must have a single value, or one value per rpc.">>
            ELSE IF p.kwargs.given /\ Len(p.kwargs.list) # Len(rpcs)
            THEN <<"The kwargs option must have one value per rpc.">>
            ELSE IF p.attrs.given /\ Len(p.attrs.list) # Len(rpcs)
            THEN <<"The attrs option must have one value per rpc.">>
            ELSE <<>>

\* A variant of the broadcast that gives every RPC the default format.
formats_per_rpc_default(p) ==
    LET formats == IF p.formats.given THEN p.formats.list ELSE <<"xml">>
    IN  IF Len(formats) = 1 /\ Len(p.rpcs.list) > 1
        THEN [i \in 1..Len(p.rpcs.list) |-> "xml"]
        ELSE formats

\* formats after the checks: a single value stands for every RPC.
formats_per_rpc(p) ==
    LET formats == IF p.formats.given THEN p.formats.list ELSE <<"xml">>
    IN  IF Len(formats) = 1 /\ Len(p.rpcs.list) > 1
        THEN [i \in 1..Len(p.rpcs.list) |-> formats[1]]
        ELSE formats

\* kwargs / attrs after the checks: [None] * len(rpcs) when absent.
list_per_rpc(option, rpcs) ==
    IF option.given THEN option.list ELSE [i \in 1..Len(rpcs) |-> None]

\* The result dict of one element.
Result(rpc_string, format, kwarg, attr, failed, msg, stdout) ==
    [rpc |-> rpc_string, format |-> format, kwargs |-> kwarg, attrs |-> attr,
     changed |-> FALSE, failed |-> failed, msg |-> msg, stdout |-> stdout]

\* The locals of main() that live across the iterations of its loop.
Locals(s) == [s |-> s, results |-> <<>>, resp |-> Unbound]

\* Lines 527-538 and 560-573: the RPC of element i is sent; resp is
\* assigned when the call returns.
send(m, i, rpc_string) ==
    IF m.s.conn_type = "local"
    THEN LET call == IF rpc_string = "get-config" THEN "dev.rpc.get_config"
                     ELSE "dev.rpc"
         IN  { IF res = "ok"
               THEN [m EXCEPT !.s = Call(m.s, call, i, "ok"),
                              !.resp = [type |-> type, of |-> i]]
               ELSE [m EXCEPT !.s = Raise(Call(m.s, call, i, res), res)]
               : res \in RpcOutcomes, type \in ResponseTypes }
    ELSE IF rpc_string = "get-config"
    THEN { IF res = "ok"
           THEN [m EXCEPT !.s = Call(m.s, "_pyez_conn.get_config", i, "ok"),
                          !.resp = [type |-> "Element", of |-> i]]
           ELSE [m EXCEPT !.s = Raise(Call(m.s, "_pyez_conn.get_config", i, res),
                                      "ConnectionError")]
           : res \in {"ok"} \cup BrokerErrors }
    ELSE { IF res = "ok"
           THEN [m EXCEPT !.s = Call(m.s, "_pyez_conn.get_rpc_resp", i, "ok"),
                          !.resp = [type |-> "Element", of |-> i]]
           ELSE LET s1 == Call(m.s, "_pyez_conn.get_rpc_resp", i, res)
                IN  IF res \in {"RpcError", "ConnectError"}
                    THEN [m EXCEPT !.s = Raise(s1, res)]
                    ELSE [m EXCEPT !.s = s1]
           : res \in {"ok"} \cup BrokerErrors }

\* One iteration of the loop, lines 490-637.
execute(m, i, rpc_string, format, kwarg, attr) ==
    { LET append_failed(msg) ==
              [m1 EXCEPT !.s = Raise(m1.s, None),
                         !.results = Append(@, Result(rpc_string, format, kwarg,
                                                      attr, TRUE, msg, Unbound))]
      IN  IF m1.s.raised \in {"ConnectError", "RpcError"}
          THEN append_failed("Unable to execute the RPC")
          ELSE IF m1.s.raised # None THEN m1
          ELSE IF m1.resp = Unbound
          THEN [m1 EXCEPT !.s = Raise(m1.s, "UnboundLocalError")]
          ELSE IF m1.resp.type = "Element" /\ format \notin {"text", "xml", "json"}
          THEN append_failed("Unexpected format")
          ELSE IF m1.resp.type \notin {"True", "Element"}
          THEN append_failed("Unexpected response type")
          ELSE [m1 EXCEPT !.results =
                    Append(@, Result(rpc_string, format, kwarg, attr, FALSE,
                                     "The RPC executed successfully.", m1.resp))]
      : m1 \in send(m, i, rpc_string) }

\* A variant of the overall flag that is set when any element failed.
failed_if_any(results) == \E i \in 1..Len(results) : results[i].failed # FALSE

\* Lines 644-648: only failed if all commands failed.
failed(results) == ~\E i \in 1..Len(results) : results[i].failed = FALSE

\* exit_json(**kwargs): the keyword arguments are what the task reports.
exit_json_kwargs(s, kwargs) ==
    { IF t.raised = "SystemExit" /\ t.outcome.status = "exit_json"
      THEN [t EXCEPT !.ret = kwargs] ELSE t
      : t \in exit_json(s) }

\* Lines 639-649.
respond(m) ==
    IF Len(m.results) = 1 THEN exit_json_kwargs(m.s, m.results[1])
    ELSE exit_json_kwargs(m.s, [results |-> m.results, changed |-> FALSE,
                                failed |-> failed(m.results)])

\* The loop of main() from element i on, then the response.
RECURSIVE loop(_, _)
loop(m, i) ==
    LET p == m.s.params
    IN  IF i > Len(p.rpcs.list) THEN respond(m)
        ELSE UNION { IF m1.s.raised # None THEN {m1.s} ELSE loop(m1, i + 1)
                     : m1 \in execute(m, i, replace(p.rpcs.list[i]),
                                      formats_per_rpc(p)[i],
                                      list_per_rpc(p.kwargs, p.rpcs.list)[i],
                                      list_per_rpc(p.attrs, p.rpcs.list)[i]) }

\* main(), rpc.py:369-649.
main(s) ==
    UNION { IF s1.raised # None THEN {s1}
            ELSE IF validate(s1.params) # <<>>
            THEN fail_json(s1, validate(s1.params))
            ELSE loop(Locals(s1), 1)
            : s1 \in JuniperJunosModule(s) }

(***************************************************************************)
(* The software module, plugins/modules/software.py main(), from the       *)
(* version check on: the package options have passed their checks, and     *)
(* no member_id is given.  The facts of the device are kept with the       *)
(* options: the version found on each routing engine examined, and whether *)
(* the device is a vmhost.                                                 *)
(***************************************************************************)
\* What sw.install() can answer: (True, msg), (False, msg) or an exception.
InstallOutcomes == {"ok", "not ok", "ConnectError", "RpcError"}

\* What sw.reboot() can answer: a message, None, or an exception.
RebootOutcomes ==
    {"ok", "None", "RpcTimeoutError", "RpcError", "ConnectError", "Exception"}

\* What a request to the broker can answer: a message, a ConnectionError or
\* another exception.
ApiOutcomes == {"ok", "ConnectionError", "Exception"}

\* A variant of the version test that asks every routing engine examined to
\* differ from the target.
changed_on_every_engine(p) ==
    IF p.target_version = None THEN TRUE
    ELSE \A re \in DOMAIN p.facts.versions : p.facts.versions[re] # p.target_version

\* software.py:631-711: the install is needed when some routing engine
\* examined runs another version than the target, or no target is known.
changed(p) ==
    IF p.target_version = None THEN TRUE
    ELSE \E re \in DOMAIN p.facts.versions : p.facts.versions[re] # p.target_version

\* fail_json(**results)
fail_json_results(m, msg) ==
    { [m EXCEPT !.s = t, !.results.msg = Append(@, msg)]
      : t \in fail_json(m.s, Append(m.results.msg, msg)) }

Say(m, msg) == [m EXCEPT !.results.msg = Append(@, msg)]

\* software.py:740-775.
install(m) ==
    IF m.s.conn_type # "local"
    THEN { LET m1 == [m EXCEPT !.s = Call(m.s, "_pyez_conn.software_api", None, res)]
           IN  IF res = "ok" THEN [m1 EXCEPT !.results.msg = <<"installed">>]
               ELSE IF res = "ConnectionError"
               THEN Say(m1, "Package successfully installed.")
               ELSE [m1 EXCEPT !.s = Raise(m1.s, res)]
           : res \in ApiOutcomes }
    ELSE UNION { LET m1 == [m EXCEPT !.s = Call(m.s, "sw.install", None, res)]
                 IN  IF res = "ok"
                     THEN {[m1 EXCEPT !.results.msg = <<"Package successfully installed.">>]}
                     ELSE IF res = "not ok"
                     THEN fail_json_results([m1 EXCEPT !.results.msg = <<>>],
                                            "Unable to install the software")
                     ELSE fail_json_results([m1 EXCEPT !.results.msg = <<>>],
                                            "Installation failed.")
                 : res \in OnHandle(IF m.s.dev = "Device" THEN "connected" ELSE "closed",
                                    InstallOutcomes) }

\* A variant of the assignment that only ever lowers the timeout.
set_timeout_lower_only(s, value) ==
    IF value > 5 THEN s ELSE Call(s, "dev.timeout", value, "ok")

\* dev.timeout = value
set_timeout(s, value) == Call(s, "dev.timeout", value, "ok")

\* software.py:776-889: the reboot.
reboot(m) ==
    IF m.s.conn_type # "local"
    THEN { LET m1 == [m EXCEPT !.s = Call(m.s, "_pyez_conn.reboot_api", None, res)]
           IN  IF res = "ok" THEN Say(m1, "Reboot initiated.")
               ELSE IF res = "ConnectionError" THEN Say(m1, " Reboot succeeded.")
               ELSE [m1 EXCEPT !.s = Raise(m1.s, res)]
           : res \in ApiOutcomes }
    ELSE
        LET restore_timeout == dev_timeout(m.s)
            s1 == IF restore_timeout > 5 THEN set_timeout(m.s, 5) ELSE m.s
        IN  UNION {
                LET s2 == set_timeout(Call(s1, "sw.reboot", None, res), restore_timeout)
                    m2 == [m EXCEPT !.s = s2]
                    \* the exception that leaves the inner try; on a vmhost
                    \* it is dropped and `got` is read unassigned
                    exc == IF m.s.params.facts.vmhost THEN "UnboundLocalError" ELSE res
                IN  IF res = "ok"
                    THEN { [m2 EXCEPT !.s = Swallow(t, "TimeoutExpiredError"),
                                      !.results.msg =
                                          Append(@, " Reboot successfully initiated.")]
                           : t \in close(s2, FALSE) }
                    ELSE IF res = "None"
                    THEN fail_json_results(m2, " Did not find expected response from reboot RPC. ")
                    ELSE IF exc = "RpcTimeoutError"
                    THEN UNION { IF t.raised = None
                                 THEN fail_json_results([m2 EXCEPT !.s = t],
                                          " Reboot failed. It may not have been initiated.")
                                 ELSE IF t.raised \in {"RpcError", "ConnectError"}
                                 THEN {Say([m2 EXCEPT !.s = Raise(t, None)],
                                           " Reboot succeeded.")}
                                 ELSE IF t.raised = "TimeoutExpiredError"
                                 THEN {Say([m2 EXCEPT !.s = Raise(t, None)],
                                           " Reboot succeeded. Ignoring close error.")}
                                 ELSE {[m2 EXCEPT !.s = t]}
                                 : t \in close(s2, TRUE) }
                    ELSE IF exc \in {"RpcError", "ConnectError"}
                    THEN fail_json_results(m2, " Reboot failed.")
                    ELSE {[m2 EXCEPT !.s = Raise(s2, exc)]}
                : res \in RebootOutcomes }

\* main(), software.py:470-899.
software_main(s) ==
    UNION { IF s1.raised # None THEN {s1}
            ELSE
                LET p == s1.params
                    m == [s |-> s1,
                          results |-> [msg |-> <<>>, changed |-> changed(p),
                                       check_mode |-> p.check_mode, failed |-> TRUE]]
                    done(m3) == IF m3.s.raised # None THEN {m3.s}
                                ELSE exit_json_kwargs(m3.s,
                                                      [m3.results EXCEPT !.failed = FALSE])
                IN  IF ~(changed(p) /\ ~p.check_mode) THEN done(m)
                    ELSE UNION { IF m1.s.raised # None \/ ~p.reboot THEN done(m1)
                                 ELSE UNION { done(m2) : m2 \in reboot(m1) }
                                 : m1 \in install(m) }
            : s1 \in JuniperJunosModule(s) }

(***************************************************************************)
(* The connection options, juniper_junos_common.py:706-762 and 833-900.    *)
(* An option is None, a str (its characters) or an int.  The console       *)
(* option is held as what ArgumentParser makes of it: the values of        *)
(* --telnet, --port, --baud and --attempts, or a parse error.              *)
(***************************************************************************)
NoConsole ==
    [given |-> FALSE, error |-> FALSE, telnet |-> NoneVal, port |-> NoneVal,
     baud |-> NoneVal, attempts |-> NoneVal]

TelnetPort == 23
NetconfPort == 830
DefaultBaud == 9600
DefaultAttempts == 10
SerialPort == <<"/", "d", "e", "v", "/", "t", "t", "y", "U", "S", "B", "0">>

\* str.strip(" ")
RECURSIVE strip(_)
strip(chars) ==
    IF chars # <<>> /\ chars[1] = " " THEN strip(Tail(chars))
    ELSE IF chars # <<>> /\ chars[Len(chars)] = " "
    THEN strip(SubSeq(chars, 1, Len(chars) - 1))
    ELSE chars

\* str.split(",", 1)
split(chars) ==
    LET commas == {i \in 1..Len(chars) : chars[i] = ","}
    IN  IF commas = {} THEN <<chars>>
        ELSE LET i == CHOOSE c \in commas : \A d \in commas : c <= d
             IN  <<SubSeq(chars, 1, i - 1), SubSeq(chars, i + 1, Len(chars))>>

\* _parse_console_options(), lines 833-900.
parse_console_options(s) ==
    LET console == s.params.console
        unparsed == fail_json(s, <<"Unable to parse the console value">>)
    IN  IF ~console.given THEN {s}
        ELSE IF console.error THEN unparsed
        ELSE IF console.telnet # NoneVal
        THEN LET host_port == split(console.telnet.s)
             IN  IF Len(host_port) < 2 \/ ~int(host_port[2]).ok THEN unparsed
                 ELSE {[s EXCEPT !.params.mode = "telnet",
                                 !.params.host = StrVal(strip(host_port[1])),
                                 !.params.port = IntVal(int(host_port[2]).n),
                                 !.params.console = NoConsole]}
        ELSE {[s EXCEPT !.params.mode = "serial",
                        !.params.port = IF console.port # NoneVal
                                        THEN console.port ELSE @,
                        !.params.baud = IF console.baud # NoneVal
                                        THEN console.baud ELSE @,
                        !.params.attempts = IF console.attempts # NoneVal
                                            THEN console.attempts ELSE @,
                        !.params.console = NoConsole]}

\* `not value` of an option value
falsy(value) == value = NoneVal \/ value = StrVal(<<>>)

\* Lines 725-743: the port.
default_port(s) ==
    LET p == s.params
    IN  IF p.port = NoneVal
        THEN {[s EXCEPT !.params.port =
                  IF p.mode = "telnet" THEN IntVal(TelnetPort)
                  ELSE IF p.mode = "serial" THEN StrVal(SerialPort)
                  ELSE IntVal(NetconfPort)]}
        ELSE IF p.mode # "serial" /\ p.port.kind = "str"
        THEN IF int(p.port.s).ok
             THEN {[s EXCEPT !.params.port = IntVal(int(p.port.s).n)]}
             ELSE fail_json(s, <<"The port option must be an integer value.">>)
        ELSE {s}

\* Lines 745-762: baud and attempts.  The variant takes the defaults in
\* every mode.
default_baud_attempts_any_mode(s) ==
    {[s EXCEPT !.params.baud = IF @ = NoneVal THEN IntVal(DefaultBaud) ELSE @,
               !.params.attempts = IF @ = NoneVal THEN IntVal(DefaultAttempts)
                                   ELSE @]}

default_baud_attempts(s) ==
    LET p == s.params
    IN  IF p.mode \in {"telnet", "serial"}
        THEN {[s EXCEPT !.params.baud =
                            IF @ = NoneVal THEN IntVal(DefaultBaud) ELSE @,
                        !.params.attempts =
                            IF @ = NoneVal THEN IntVal(DefaultAttempts) ELSE @]}
        ELSE IF p.baud # NoneVal
        THEN fail_json(s, <<"The baud option is not valid when mode == none.">>)
        ELSE IF p.attempts # NoneVal
        THEN fail_json(s, <<"The attempts option is not valid when mode == none.">>)
        ELSE {s}

initialize_params(s) ==
    UNION { IF s1.raised # None THEN {s1}
            ELSE IF falsy(s1.params.host)
            THEN fail_json(s1, <<"missing required arguments: host">>)
            ELSE IF falsy(s1.params.user)
            THEN fail_json(s1, <<"missing required arguments: user">>)
            ELSE UNION { IF s2.raised # None THEN {s2} ELSE default_baud_attempts(s2)
                         : s2 \in default_port(s1) }
            : s1 \in parse_console_options(s) }

\* __init__(), lines 593-704: the options, the versions of the libraries,
\* then the connection.
VersionChecks == {"success", "PyEZ is too old"}

JuniperJunosModule_init(s) ==
    UNION { IF s1.raised # None THEN {s1}
            ELSE UNION { IF ret_output # "success" THEN fail_json(s1, <<ret_output>>)
                         ELSE JuniperJunosModule(s1)
                         : ret_output \in VersionChecks }
            : s1 \in initialize_params(s) }

(***************************************************************************)
(* save_text_output(), juniper_junos_common.py:1860-1924.  A file of the   *)
(* control machine is the sequence of the texts written to it.             *)
(***************************************************************************)
inventory_hostname == "r1"

NoFile == [exists |-> FALSE, data |-> <<>>]
OldFile == [exists |-> TRUE, data |-> <<"old">>]

\* os.path.normpath(), on the paths a task gives.
normpath(path) == IF path = "./out.txt" THEN "out.txt" ELSE path

\* os.path.join(dest_dir, file_name)
join(dest_dir, file_name) == dest_dir \o "/" \o file_name

\* name.replace(" ", "_").replace("|", "_"), lines 1905-1908, on the names
\* a task gives.
replace_separators(name) ==
    IF name \in {"show route", "show|route"} THEN "show_route" ELSE name

\* Lines 1889-1911: the path of the file, or None.
file_path(s, name, format) ==
    LET p == s.params
    IN  IF name = "diff"
        THEN IF p.diffs_file # None THEN normpath(p.diffs_file)
             ELSE IF p.dest_dir # None
             THEN normpath(join(p.dest_dir, inventory_hostname \o ".diff"))
             ELSE None
        ELSE IF p.dest # None THEN normpath(p.dest)
             ELSE IF p.dest_dir # None
             THEN LET name1 == replace_separators(name)
                      name2 == IF name1 = "config" THEN "" ELSE "_" \o name1
                  IN  normpath(join(p.dest_dir,
                                    inventory_hostname \o name2 \o "." \o format))
             ELSE None

\* A variant of the mode that overwrites on every save.
write_mode_overwrite(s, name) == "wb"

\* Lines 1888-1901: the mode in which the file is opened.
write_mode(s, name) ==
    IF name # "diff" /\ s.params.dest # None /\ s.destfile # None THEN "ab" ELSE "wb"

\* open(file_path, mode) and write(text)
written(file, mode, text) ==
    [exists |-> TRUE,
     data |-> IF mode = "ab" THEN Append(file.data, text) ELSE <<text>>]

save_text_output(s, name, format, text) ==
    LET path == file_path(s, name, format)
        mode == write_mode(s, name)
        s1 == IF name # "diff" /\ s.params.dest # None /\ s.destfile = None
              THEN [s EXCEPT !.destfile = s.params.dest] ELSE s
    IN  IF path = None THEN {s1}
        ELSE UNION {
            LET s2 == Call(s1, "open",
                           [path |-> path, mode |-> mode, name |-> name,
                            text |-> text], res)
            IN  IF res = "IOError"
                THEN fail_json(s2, <<"Unable to save output. Failed to open the file",
                                     path>>)
                ELSE {[s2 EXCEPT !.files[path] = written(@, mode, text)]}
            : res \in {"ok", "IOError"} }

(***************************************************************************)
(* The task: one operation of the calling workflow per step.               *)
(***************************************************************************)
Self ==
    [params |-> params, conn_type |-> conn_type, dev |-> dev, config |-> config,
     pyez_conn |-> pyez_conn, held |-> held, destfile |-> destfile,
     files |-> files,
     calls |-> <<>>, fails |-> <<>>,
     raised |-> None,
     ret |-> <<>>, outcome |-> outcome]

SessionMode == IF conn_type = "local" THEN config.mode ELSE pyez_conn

Op(name, mode, inst, flag) ==
    [name |-> name, mode |-> mode, inst |-> inst, flag |-> flag,
     id |-> NoneVal, ignore_warning |-> PyNone, timeout |-> NoTimeout,
     before |-> SessionMode,
     dev |-> dev]

OpId(name, id) == [Op(name, None, None, FALSE) EXCEPT !.id = id]

NoPrev == [name |-> None, mode |-> None, before |-> None]

\* What is remembered of an operation once the next one has run: the session
\* operations, with the mode asked for and the session they found.
Summary(o) ==
    IF o.name \in {"open_configuration", "close_configuration"}
    THEN [name |-> o.name, mode |-> o.mode, before |-> o.before]
    ELSE NoPrev

\* An exception nobody handles ends the task.
Finish(s) ==
    IF s.raised \in {None, "SystemExit"} THEN s
    ELSE [s EXCEPT !.outcome = [status |-> "error", msg |-> <<s.raised>>]]

Step(o, s) ==
    LET t == Finish(s)
    IN  /\ outcome.status = "running"
        /\ op' = o
        /\ prev' = Summary(op)
        /\ params' = t.params
        /\ conn_type' = t.conn_type
        /\ dev' = t.dev
        /\ config' = t.config
        /\ pyez_conn' = t.pyez_conn
        /\ held' = t.held
        /\ destfile' = t.destfile
        /\ files' = t.files
        /\ calls' = t.calls
        /\ fails' = t.fails
        /\ raised' = t.raised
        /\ ret' = t.ret
        /\ outcome' = t.outcome

Init ==
    /\ params = [rollback |-> NoneVal, timeout |-> DefaultTimeout]
    /\ conn_type \in {"local", "pyez"}
    /\ dev = IF conn_type = "local" THEN "Device" ELSE None
    /\ config = NoConfig
    /\ pyez_conn = None
    /\ held = 0
    /\ files = [local |-> Absent, remote |-> Absent]
    /\ op = [name |-> "__init__", mode |-> None, inst |-> None, flag |-> FALSE,
             id |-> NoneVal, ignore_warning |-> PyNone, timeout |-> NoTimeout,
             before |-> None,
             dev |-> None]
    /\ prev = NoPrev
    /\ calls = <<>>
    /\ fails = <<>>
    /\ destfile = None
    /\ raised = None
    /\ ret = <<>>
    /\ outcome = Running

\* Every call site of open() is on the local path.
Open ==
    /\ conn_type = "local"
    /\ \E t \in open(Self) : Step(Op("open", None, None, FALSE), t)

Close ==
    \E raise_exceptions \in BOOLEAN :
        \E t \in close(Self, raise_exceptions) :
            Step(Op("close", None, None, raise_exceptions), t)

OpenConfiguration(ignore_warnings) ==
    \E mode \in CONFIG_MODE_CHOICES \cup {"bogus"}, inst \in {None, "inst0"},
       ignore_warning \in ignore_warnings :
        \E t \in open_configuration(Self, mode, ignore_warning, inst) :
            Step([Op("open_configuration", mode, inst, FALSE)
                      EXCEPT !.ignore_warning = ignore_warning], t)

CloseConfiguration ==
    \E t \in close_configuration(Self) :
        Step(Op("close_configuration", None, None, FALSE), t)

ExitJson ==
    \E t \in exit_json(Self) : Step(Op("exit_json", None, None, FALSE), t)

FailJson ==
    \E t \in fail_json(Self, <<"M">>) :
        Step(Op("fail_json", None, None, FALSE), t)

LoadActions == {"set", "merge"}

\* Rollback ids tried: IdSlack values on each side of the valid range.
IdSlack == 2

RollbackInts == (MinRollbackId - IdSlack)..(MaxRollbackId + IdSlack)

BoundaryIds ==
    {StrVal(Rescue), IntVal(MinRollbackId - 1), IntVal(MinRollbackId),
     IntVal(MaxRollbackId), IntVal(MaxRollbackId + 1)}

\* The ids the task's rollback option stands for: the int it spells, and
\* the option itself as the caller holds it.
OptionIds ==
    IF params.rollback.kind = "str" /\ int(params.rollback.s).ok
    THEN {IntVal(int(params.rollback.s).n), params.rollback}
    ELSE {params.rollback}

RollbackOptions ==
    {NoneVal, StrVal(Rescue), StrVal(Bogus), StrVal(<<>>), StrVal(<<"+", "7">>),
     StrVal(<<"0", "7">>), StrVal(<<"1", ".", "5">>)}
        \cup {StrVal(Str(i)) : i \in RollbackInts}

ParseRollbackOption ==
    \E t \in parse_rollback_option(Self) :
        Step(OpId("parse_rollback_option", params.rollback), t)

RollbackConfiguration(ids) ==
    \E id \in ids :
        \E t \in rollback_configuration(Self, id) :
            Step(OpId("rollback_configuration", id), t)

CheckConfiguration ==
    \E t \in check_configuration(Self) :
        Step(Op("check_configuration", None, None, FALSE), t)

DiffConfiguration ==
    \E t \in diff_configuration(Self) :
        Step(Op("diff_configuration", None, None, FALSE), t)

LoadConfiguration ==
    \E action \in LoadActions :
        \E t \in load_configuration(Self, action) :
            Step(Op("load_configuration", action, None, FALSE), t)

CommitConfiguration(timeouts) ==
    \E timeout \in timeouts :
        \E t \in commit_configuration(Self, timeout.value) :
            Step([Op("commit_configuration", None, None, FALSE)
                      EXCEPT !.timeout = timeout], t)

\* The configuration workflow: session lifecycle and transaction operations.
Next ==
    \/ Open
    \/ Close
    \/ OpenConfiguration({PyNone})
    \/ CloseConfiguration
    \/ RollbackConfiguration(BoundaryIds)
    \/ CheckConfiguration
    \/ DiffConfiguration
    \/ LoadConfiguration
    \/ CommitConfiguration({NoTimeout})
    \/ ExitJson
    \/ FailJson

Spec == Init /\ [][Next]_vars

\* The values of ignore_warning a caller passes.
IgnoreWarnings ==
    {PyNone, Bool(TRUE), Bool(FALSE), String("statement not found"),
     List(<<"statement not found">>),
     List(<<"statement not found", "mgd: commit complete">>)}

\* Sessions opened and closed under every value of ignore_warning.
NextIgnoreWarning ==
    \/ OpenConfiguration(IgnoreWarnings)
    \/ CloseConfiguration

SpecIgnoreWarning == Init /\ [][NextIgnoreWarning]_vars

\* Commits under every timeout of the connection and of the caller.
ConnectionTimeouts == {0, DefaultTimeout, 45}

CallerTimeouts == {NoTimeout, Timeout(DefaultTimeout), Timeout(45), Timeout(60)}

InitCommit ==
    /\ params \in [rollback : {NoneVal}, timeout : ConnectionTimeouts]
    /\ conn_type \in {"local", "pyez"}
    /\ dev = IF conn_type = "local" THEN "Device" ELSE None
    /\ config = NoConfig
    /\ pyez_conn = None
    /\ held = 0
    /\ files = [local |-> Absent, remote |-> Absent]
    /\ op = [name |-> "__init__", mode |-> None, inst |-> None, flag |-> FALSE,
             id |-> NoneVal, ignore_warning |-> PyNone, timeout |-> NoTimeout,
             before |-> None, dev |-> None]
    /\ prev = NoPrev
    /\ calls = <<>>
    /\ fails = <<>>
    /\ destfile = None
    /\ raised = None
    /\ ret = <<>>
    /\ outcome = Running

NextCommit ==
    \/ OpenConfiguration({PyNone})
    \/ CommitConfiguration(CallerTimeouts)
    \/ CloseConfiguration

SpecCommit == InitCommit /\ [][NextCommit]_vars

\* The rollback option, over every id around the valid range: the task
\* starts with any option value and with or without an open session.
InitRollback ==
    /\ params \in [rollback : RollbackOptions]
    /\ conn_type \in {"local", "pyez"}
    /\ dev \in IF conn_type = "local" THEN {"Device", None} ELSE {None}
    /\ \E mode \in CONFIG_MODE_CHOICES \cup {None} :
        /\ config = IF conn_type = "local" /\ mode # None
                    THEN [mode |-> mode,
                          dev |-> IF dev = None THEN "closed" ELSE "current"]
                    ELSE NoConfig
        /\ pyez_conn = IF conn_type = "local" THEN None ELSE mode
        /\ held = IF mode = None THEN 0 ELSE 1
    /\ files = [local |-> Absent, remote |-> Absent]
    /\ op = [name |-> "__init__", mode |-> None, inst |-> None, flag |-> FALSE,
             id |-> NoneVal, ignore_warning |-> PyNone, timeout |-> NoTimeout,
             before |-> None,
             dev |-> None]
    /\ prev = NoPrev
    /\ calls = <<>>
    /\ fails = <<>>
    /\ destfile = None
    /\ raised = None
    /\ ret = <<>>
    /\ outcome = Running

NextRollback ==
    \/ ParseRollbackOption
    \/ RollbackConfiguration(OptionIds)

SpecRollback == InitRollback /\ [][NextRollback]_vars

ScpFileCopyPut ==
    \E t \in scp_file_copy_put(Self) :
        Step(Op("scp_file_copy_put", "put", None, FALSE), t)

FtpFileCopyPut ==
    \E t \in ftp_file_copy_put(Self) :
        Step(Op("ftp_file_copy_put", "put", None, FALSE), t)

ScpFileCopyGet ==
    \E t \in scp_file_copy_get(Self) :
        Step(Op("scp_file_copy_get", "get", None, FALSE), t)

FtpFileCopyGet ==
    \E t \in ftp_file_copy_get(Self) :
        Step(Op("ftp_file_copy_get", "get", None, FALSE), t)

ScpFileCopyPutWithoutChecksum ==
    \E t \in scp_file_copy_put_without_checksum(Self) :
        Step(Op("scp_file_copy_put_without_checksum", "put", None, FALSE), t)

FtpFileCopyPutWithoutChecksum ==
    \E t \in ftp_file_copy_put_without_checksum(Self) :
        Step(Op("ftp_file_copy_put_without_checksum", "put", None, FALSE), t)

ScpFileCopyGetWithoutChecksum ==
    \E t \in scp_file_copy_get_without_checksum(Self) :
        Step(Op("scp_file_copy_get_without_checksum", "get", None, FALSE), t)

FtpFileCopyGetWithoutChecksum ==
    \E t \in ftp_file_copy_get_without_checksum(Self) :
        Step(Op("ftp_file_copy_get_without_checksum", "get", None, FALSE), t)

\* The file-copy workflow: the task is constructed with its connection, runs
\* transfers over any local and remote file, and exits.
InitTransfer ==
    /\ params = [rollback |-> NoneVal, timeout |-> DefaultTimeout]
    /\ conn_type \in {"local", "pyez"}
    /\ dev = IF conn_type = "local" THEN "Device" ELSE None
    /\ config = NoConfig
    /\ pyez_conn = None
    /\ held = 0
    /\ files \in [local : Contents \cup {Absent}, remote : Contents \cup {Absent}]
    /\ op = [name |-> "__init__", mode |-> None, inst |-> None, flag |-> FALSE,
             id |-> NoneVal, ignore_warning |-> PyNone, timeout |-> NoTimeout,
             before |-> None,
             dev |-> None]
    /\ prev = NoPrev
    /\ calls = <<>>
    /\ fails = <<>>
    /\ destfile = None
    /\ raised = None
    /\ ret = <<>>
    /\ outcome = Running

NextTransfer ==
    \/ ScpFileCopyPut
    \/ FtpFileCopyPut
    \/ ScpFileCopyGet
    \/ FtpFileCopyGet
    \/ ScpFileCopyPutWithoutChecksum
    \/ FtpFileCopyPutWithoutChecksum
    \/ ScpFileCopyGetWithoutChecksum
    \/ FtpFileCopyGetWithoutChecksum
    \/ ExitJson

SpecTransfer == InitTransfer /\ [][NextTransfer]_vars

\* The rpc workflow: the task is given its options, and main() runs from the
\* construction of the module to the end of the task.
MaxRpcs == 2

RpcNames == {"get_config", "get-route-information"}

FormatValues == {"xml", "text", "bogus"}

SeqsUpTo(S, n) == UNION {[1..k -> S] : k \in 0..n}

ListOptions(S) == {NotGiven} \cup {Given(list) : list \in SeqsUpTo(S, MaxRpcs)}

Main ==
    /\ outcome.status = "running"
    /\ \E t \in main(Self) : Step(Op("main", None, None, FALSE), t)

InitRpc ==
    /\ params \in [rollback : {NoneVal}, rpcs : ListOptions(RpcNames),
                    formats : ListOptions(FormatValues),
                    kwargs : ListOptions({"kwarg"}), attrs : ListOptions({"attr"})]
    /\ conn_type \in {"local", "pyez"}
    /\ dev = None
    /\ config = NoConfig
    /\ pyez_conn = None
    /\ held = 0
    /\ files = [local |-> Absent, remote |-> Absent]
    /\ op = [name |-> "__init__", mode |-> None, inst |-> None, flag |-> FALSE,
             id |-> NoneVal, ignore_warning |-> PyNone, timeout |-> NoTimeout,
             before |-> None,
             dev |-> None]
    /\ prev = NoPrev
    /\ calls = <<>>
    /\ fails = <<>>
    /\ destfile = None
    /\ raised = None
    /\ ret = <<>>
    /\ outcome = Running

NextRpc == Main

SpecRpc == InitRpc /\ [][NextRpc]_vars

\* The software workflow: the task is given its options, the device has
\* its facts, and main() runs from the construction of the module to the
\* end of the task.
Versions == {"21.1R1", "21.2R1"}

\* The routing engines examined: one, or all of them.
Engines == {{"re0"}, {"re0", "re1"}}

Facts ==
    UNION { [vmhost : BOOLEAN, versions : [res -> Versions]] : res \in Engines }

SoftwareMain ==
    /\ outcome.status = "running"
    /\ \E t \in software_main(Self) : Step(Op("main", None, None, FALSE), t)

InitSoftware ==
    /\ params \in [rollback : {NoneVal}, timeout : {3, DefaultTimeout},
                   check_mode : BOOLEAN, target_version : Versions \cup {None},
                   reboot : BOOLEAN, facts : Facts]
    /\ conn_type \in {"local", "pyez"}
    /\ dev = None
    /\ config = NoConfig
    /\ pyez_conn = None
    /\ held = 0
    /\ files = [local |-> Absent, remote |-> Absent]
    /\ op = [name |-> "__init__", mode |-> None, inst |-> None, flag |-> FALSE,
             id |-> NoneVal, ignore_warning |-> PyNone, timeout |-> NoTimeout,
             before |-> None, dev |-> None]
    /\ prev = NoPrev
    /\ calls = <<>>
    /\ fails = <<>>
    /\ destfile = None
    /\ raised = None
    /\ ret = <<>>
    /\ outcome = Running

SpecSoftware == InitSoftware /\ [][SoftwareMain]_vars

\* The construction of a module, over the connection options a task can
\* give.
Hosts == {NoneVal, StrVal(<<"r", "1">>)}
Ports == {NoneVal, StrVal(<<"2", "2">>), StrVal(<<"t", "t", "y">>)}
Bauds == {NoneVal, IntVal(115200)}
Attempts == {NoneVal, IntVal(3)}
Consoles ==
    {NoConsole, [NoConsole EXCEPT !.given = TRUE, !.error = TRUE]}
    \cup { [NoConsole EXCEPT !.given = TRUE, !.telnet = StrVal(telnet)]
           : telnet \in {<<" ", "r", "2", ",", "7">>, <<"r", "2">>, <<",", "7">>,
                          <<"r", "2", ",", "x">>} }
    \cup { [NoConsole EXCEPT !.given = TRUE, !.port = port, !.baud = baud]
           : port \in {NoneVal, StrVal(<<"t", "t", "y">>)},
             baud \in {NoneVal, StrVal(<<"5", "7", "6", "0", "0">>)} }

\* mutually_exclusive, lines 495-500: console excludes mode, port, baud and
\* attempts.
ConnectionOptions ==
    { p \in [rollback : {NoneVal}, timeout : {DefaultTimeout}, host : Hosts,
             user : {NoneVal, StrVal(<<"u">>)}, mode : {None, "telnet", "serial"},
             port : Ports, baud : Bauds, attempts : Attempts, console : Consoles] :
        p.console.given => /\ p.mode = None
                           /\ p.port = NoneVal
                           /\ p.baud = NoneVal
                           /\ p.attempts = NoneVal }

Construct ==
    /\ outcome.status = "running"
    /\ op.name = "__init__"
    /\ \E t \in JuniperJunosModule_init(Self) : Step(Op("constructed", None, None, FALSE), t)

InitParams ==
    /\ params \in ConnectionOptions
    /\ conn_type \in {"local", "pyez"}
    /\ dev = None
    /\ config = NoConfig
    /\ pyez_conn = Unset
    /\ held = 0
    /\ files = [local |-> Absent, remote |-> Absent]
    /\ op = [name |-> "__init__", mode |-> None, inst |-> None, flag |-> FALSE,
             id |-> NoneVal, ignore_warning |-> PyNone, timeout |-> NoTimeout,
             before |-> None, dev |-> None]
    /\ prev = NoPrev
    /\ calls = <<>>
    /\ fails = <<>>
    /\ destfile = None
    /\ raised = None
    /\ ret = <<>>
    /\ outcome = Running

SpecParams == InitParams /\ [][Construct]_vars

\* A task that saves outputs: up to MaxSaves files are opened, and `calls`
\* keeps the log of the whole task.
MaxSaves == 3
SaveNames == {"diff", "config", "show route", "show|route"}
SaveTexts == {"t1", "t2"}
SavePaths ==
    {"out.txt", "d.diff", "dir/r1.diff", "dir/r1.xml", "dir/r1_show_route.xml"}

SaveTextOutput ==
    /\ outcome.status = "running"
    /\ Len(calls) < MaxSaves
    /\ \E name \in SaveNames, text \in SaveTexts :
        \E t \in save_text_output([Self EXCEPT !.calls = calls], name, "xml", text) :
            Step(Op("save_text_output", name, "xml", FALSE), t)

InitSave ==
    /\ params \in [rollback : {NoneVal}, timeout : {DefaultTimeout},
                   dest : {None, "out.txt", "./out.txt"}, dest_dir : {None, "dir"},
                   diffs_file : {None, "d.diff"}]
    /\ conn_type \in {"local", "pyez"}
    /\ dev = IF conn_type = "local" THEN "Device" ELSE None
    /\ config = NoConfig
    /\ pyez_conn = None
    /\ held = 0
    /\ files \in {[path \in SavePaths |-> NoFile], [path \in SavePaths |-> OldFile]}
    /\ op = [name |-> "__init__", mode |-> None, inst |-> None, flag |-> FALSE,
             id |-> NoneVal, ignore_warning |-> PyNone, timeout |-> NoTimeout,
             before |-> None, dev |-> None]
    /\ prev = NoPrev
    /\ calls = <<>>
    /\ fails = <<>>
    /\ destfile = None
    /\ raised = None
    /\ ret = <<>>
    /\ outcome = Running

SpecSave == InitSave /\ [][SaveTextOutput]_vars

(***************************************************************************)
(* Properties.                                                             *)
(***************************************************************************)
Idx(call) == {i \in 1..Len(calls) : calls[i].call = call}

Releases == {i \in 1..Len(calls) : calls[i].call \in ReleaseCalls}

Acquires == {i \in 1..Len(calls) : calls[i].call \in AcquireCalls}

Ended == outcome.status # "running"

FiveModes == {"exclusive", "private", "dynamic", "batch", "ephemeral"}

SessionOf(s) == IF s.conn_type = "local" THEN s.config.mode ELSE s.pyez_conn

\* C1: on every exit path of a task (exit_json, fail_json, an exception
\* unwinding out of an operation) a configuration session that is open is
\* closed through close_configuration exactly once, and before the
\* connection is closed.
C1_SessionClosedOnEveryExit ==
    (conn_type = "local" /\ Ended /\ op.before # None) =>
        /\ Cardinality(Releases) = 1
        /\ \A i \in Releases : \A j \in Idx("dev.close") : i < j

\* C2: fail_json invoked with message M while a session and/or a connection
\* is open reports M, whatever the cleanup it performs does: an error of the
\* cleanup never replaces M and never surfaces instead of it.
C2_OriginalMessageReported ==
    (conn_type = "local" /\ op.name = "fail_json") => outcome = [status |-> "fail_json", msg |-> <<"M">>]

\* C3: in every fail_json the session teardown (if a session is recorded)
\* comes first, then the connection teardown (if a handle is stored), then
\* the failure report; when the report is emitted self.config and self.dev
\* are both absent.
C3_FailJsonOrder ==
    /\ \A k \in Idx("fail_json") :
        /\ k = Len(calls)
        /\ config = NoConfig
        /\ dev = None
        /\ \A j \in Idx("dev.close") : j < k /\ \A i \in Releases : i < j
    /\ (op.name = "fail_json" /\ op.before # None /\ Idx("fail_json") # {})
            => Releases # {}
    /\ (op.name = "fail_json" /\ op.dev # None /\ Idx("fail_json") # {})
            => Idx("dev.close") # {}

C3_Witness ==
    /\ op.name = "fail_json"
    /\ op.before = "exclusive"
    /\ Len(calls) = 3
    /\ calls[1].call = "unlock"
    /\ calls[2].call = "dev.close"
    /\ calls[3].call = "fail_json"

\* C4: close_configuration called twice in a row: the second call raises
\* nothing, issues no unlock and no close-configuration RPC, and leaves the
\* session closed.
C4_SecondCloseIsNoOp ==
    [][(op.name = "close_configuration" /\ op'.name = "close_configuration")
          => /\ raised' = None
             /\ outcome'.status = "running"
             /\ \A i \in 1..Len(calls') : calls'[i].call \notin ReleaseCalls
             /\ config' = NoConfig
             /\ pyez_conn' = None]_vars

C4_Witness ==
    /\ conn_type = "local"
    /\ op.name = "close_configuration"
    /\ prev.name = "close_configuration"
    /\ prev.before = "private"
    /\ calls = <<>>
    /\ config = NoConfig

\* C5: open_configuration called while a session is already open is a no-op
\* and not an error, whatever mode is asked for: no lock and no
\* open-configuration RPC is issued, and the recorded session and its mode
\* are unchanged.
C5_OpenWhileOpenIsNoOp ==
    [][(op'.name = "open_configuration" /\ SessionMode # None)
          => /\ raised' = None
             /\ outcome'.status = "running"
             /\ \A i \in 1..Len(calls') : calls'[i].call \notin AcquireCalls
             /\ config' = config
             /\ pyez_conn' = pyez_conn
             /\ dev' = dev]_vars

C5_Witness ==
    /\ conn_type = "local"
    /\ op.name = "open_configuration"
    /\ op.mode = "exclusive"
    /\ op.before = "private"
    /\ config.mode = "private"
    /\ calls = <<>>

\* C6: for every mode m1 of the five, open_configuration(m1) followed by
\* close_configuration leaves the instance in a state in which
\* open_configuration(m2) succeeds for every mode m2 of the five and records
\* a session in mode m2.
AfterOpenClose(m1) ==
    /\ outcome.status = "running"
    /\ op.name = "close_configuration"
    /\ op.before = m1
    /\ prev.name = "open_configuration"
    /\ prev.mode = m1
    /\ prev.before = None

C6_ReopenAfterClose ==
    \A m1 \in FiveModes : AfterOpenClose(m1) =>
        \A m2 \in FiveModes :
            /\ \E t \in open_configuration(Self, m2, PyNone, None) :
                    t.raised = None /\ SessionOf(t) = m2
            /\ \A t \in open_configuration(Self, m2, PyNone, None) :
                    (\A i \in 1..Len(t.calls) : t.calls[i].res = "ok")
                        => t.raised = None /\ SessionOf(t) = m2

C6_Witness ==
    /\ conn_type = "local"
    /\ op.name = "open_configuration"
    /\ op.mode = "private"
    /\ op.before = None
    /\ config.mode = "private"
    /\ prev.name = "close_configuration"
    /\ prev.before = "exclusive"

\* C7: at most one configuration session is open per connection: the number
\* of successful lock / open-configuration calls not yet matched by an
\* unlock / close-configuration is 0 or 1.
C7_AtMostOneSession == held \in {0, 1}

C7_Witness ==
    /\ conn_type = "local"
    /\ held = 1
    /\ op.name = "open_configuration"
    /\ op.before # None
    /\ prev.name = "open_configuration"
    /\ prev.before = None

\* C8: rollback(i) issues the numbered rollback with id i for every integer
\* 0 <= i <= 49, rollback("rescue") issues the rescue reload, and
\* rollback(50), rollback(-1) and rollback("bogus") fail validation without
\* any rollback or rescue call reaching the device.
SessionWasOpen == op.before # None /\ (conn_type = "local" => op.dev # None)

TransactionCalls ==
    {"config.load", "config.commit_check", "config.diff", "config.commit",
     "config.rollback", "config.rescue"}

NoTransactionCall ==
    \A i \in 1..Len(calls) : calls[i].call \notin TransactionCalls

\* The operation went to fail_json with the validation message msg, the task
\* ended there, and if the cleanup of fail_json went well msg is reported.
FailedValidation(msg) ==
    /\ fails # <<>>
    /\ fails[1] = msg
    /\ outcome.status \in {"fail_json", "error"}
    /\ (Len(fails) = 1 /\ outcome.status = "fail_json") => outcome.msg = msg

TransactionOps ==
    {"load_configuration", "check_configuration", "diff_configuration",
     "commit_configuration", "rollback_configuration"}

C9_NotOpenIsReported ==
    (/\ conn_type = "local"
     /\ op.name \in TransactionOps
     /\ (op.dev = None \/ op.before = None))
        => /\ outcome = [status |-> "fail_json", msg |-> NotOpen]
           /\ NoTransactionCall

\* C10: a checksum-verified put or get reports success only if the checksum
\* of the destination, computed again after the transfer, equals the checksum
\* of the source; if the two differ after the transfer the operation ends in
\* a failure whose message holds both checksum values.
VerifiedOps ==
    {"scp_file_copy_put", "ftp_file_copy_put", "scp_file_copy_get", "ftp_file_copy_get"}

TransferCalls == {"scp.put", "ftp.put", "scp.get", "ftp.get"}

Checksums == {hexdigest(c) : c \in Contents} \cup {"no_file"}

SourceCall == IF op.mode = "put" THEN "local_md5" ELSE "get_checksum_information"

DestCall == IF op.mode = "put" THEN "get_checksum_information" ELSE "local_md5"

Transfers == {i \in 1..Len(calls) : calls[i].call \in TransferCalls /\ calls[i].res = "ok"}

\* The checksum of the source, as the operation computed it.
SourceChecksum == calls[CHOOSE i \in Idx(SourceCall) : \A j \in Idx(SourceCall) : i <= j].res

\* The checksums of the destination computed after the transfer.
DestAfterTransfer ==
    {i \in Idx(DestCall) : calls[i].res \in Checksums /\ \E j \in Transfers : j < i}

DestNow == IF op.mode = "put" THEN files.remote ELSE files.local

C10_TransferIntegrity ==
    op.name \in VerifiedOps =>
        /\ raised = None => hexdigest(DestNow) = SourceChecksum
        /\ (raised = None /\ ret = PushedOK)
              => /\ Transfers # {}
                 /\ DestAfterTransfer # {}
                 /\ \A i \in DestAfterTransfer : calls[i].res = SourceChecksum
        /\ \A i \in DestAfterTransfer :
              calls[i].res # SourceChecksum
                => /\ outcome.status = "fail_json"
                   /\ Len(outcome.msg) = 3
                   /\ {outcome.msg[2], outcome.msg[3]} = {SourceChecksum, calls[i].res}

C10_Witness ==
    /\ conn_type = "local"
    /\ op.name = "scp_file_copy_put"
    /\ \E i \in Transfers : calls[i].arg = "corrupted"
    /\ outcome = [status |-> "fail_json",
                  msg |-> MD5Differ(hexdigest("v1"), hexdigest("v2"))]

\* C11: for each of the four checksum-verified operations, if the local and
\* the remote checksum are equal before the transfer, the operation makes no
\* transfer call, computes no checksum a second time and returns the
\* "already present" status.
ChecksumCalls == Idx("local_md5") \cup Idx("get_checksum_information")

AnyTransfer == {i \in 1..Len(calls) : calls[i].call \in TransferCalls}

\* The first two calls of the operation computed the two checksums, and
\* they are equal.
EqualBeforeTransfer ==
    /\ Len(calls) >= 2
    /\ {calls[1].call, calls[2].call} = {"local_md5", "get_checksum_information"}
    /\ calls[1].res \in Checksums
    /\ calls[1].res = calls[2].res

C11_TransferIdempotence ==
    (op.name \in VerifiedOps /\ EqualBeforeTransfer)
        => /\ AnyTransfer = {}
           /\ Cardinality(ChecksumCalls) = 2
           /\ Len(calls) = 2
           /\ raised = None
           /\ ret = AlreadyPresent
           /\ outcome.status = "running"
           /\ files.local = files.remote

C11_Witness ==
    /\ op.name = "scp_file_copy_get"
    /\ files = [local |-> "v2", remote |-> "v2"]
    /\ calls = <<Ev("get_checksum_information", "get", hexdigest("v2")),
                 Ev("local_md5", "get", hexdigest("v2"))>>
    /\ ret = AlreadyPresent

\* C12: "no_file" stands for a missing destination only: the remote checksum
\* query gives it only in a put, the local checksum computation only in a
\* get; a missing source and every other error of a checksum computation
\* leave the operation as an exception; and after a "no_file" destination the
\* next call is the transfer.
ChecksumErrors == {"No such file", "No such file or directory", "Permission denied", "timeout"}

UnverifiedOps ==
    {"scp_file_copy_put_without_checksum", "ftp_file_copy_put_without_checksum",
     "scp_file_copy_get_without_checksum", "ftp_file_copy_get_without_checksum"}

TransportRaised == \E i \in AnyTransfer : calls[i].res = "error"

C13_TransportErrorsReturned ==
    op.name \in UnverifiedOps =>
        /\ ChecksumCalls = {}
        /\ raised = None
        /\ outcome.status = "running"
        /\ TransportRaised => Len(ret) = 2 /\ ret[2] = FALSE /\ ret # TransferFailed

(***************************************************************************)
(* The batched RPC workflow (SpecRpc).                                     *)
(***************************************************************************)
Rpcs == params.rpcs.list

RpcCalls ==
    {"dev.rpc", "dev.rpc.get_config", "_pyez_conn.get_config",
     "_pyez_conn.get_rpc_resp"}

\* The RPCs sent to the device, in the order they were sent.
Executed == SelectSeq(calls, LAMBDA e : e.call \in RpcCalls)

\* main() ran through its loop and reported through exit_json.
Responded == op.name = "main" /\ outcome.status = "exit_json"

\* C14: when the batch of two or more RPCs has been run and reported, the
\* top-level failed flag is true exactly when every element of the results
\* list has failed = true, and every element carries the flag of its own
\* RPC: true when the RPC raised a connection or RPC error and, on the local
\* path, false exactly when the device returned True or an element.  When
\* the batch has exactly one RPC, what is reported is the result of that RPC
\* itself, with its own failed flag and no results list.
C14_BatchAggregation ==
    Responded =>
        /\ Len(Rpcs) >= 2 =>
            /\ DOMAIN ret = {"results", "changed", "failed"}
            /\ Len(ret.results) = Len(Rpcs)
            /\ ret.failed = (\A i \in 1..Len(Rpcs) : ret.results[i].failed)
            /\ \A i \in 1..Len(Rpcs) :
                /\ Executed[i].res \in {"ConnectError", "RpcError"}
                       => ret.results[i].failed
                /\ conn_type = "local" =>
                       (~ret.results[i].failed
                            <=> /\ Executed[i].res = "ok"
                                /\ ret.results[i].stdout.type \in {"True", "Element"})
        /\ Len(Rpcs) = 1 =>
            /\ "results" \notin DOMAIN ret
            /\ ret.rpc = replace(Rpcs[1])
            /\ Executed[1].res \in {"ConnectError", "RpcError"} => ret.failed
            /\ conn_type = "local" =>
                   (~ret.failed <=> /\ Executed[1].res = "ok"
                                    /\ ret.stdout.type \in {"True", "Element"})

\* A batch of two RPCs of which one failed and one succeeded was reported
\* as not failed.
C14_Witness ==
    /\ Responded
    /\ Len(Rpcs) = 2
    /\ Len(ret.results) = 2
    /\ ret.results[1].failed
    /\ ~ret.results[2].failed
    /\ ~ret.failed

\* The results the task reported: the list of a batch, or the one result.
Results == IF "results" \in DOMAIN ret THEN ret.results ELSE <<ret>>

\* The module was constructed and the options passed the checks of main().
BatchStarted == op.name = "main" /\ fails = <<>>

\* Element i failed: its RPC raised, or returned a value of an unexpected type.
ElementFailed(i) ==
    \/ Executed[i].res # "ok"
    \/ Results[i].stdout.type \notin {"True", "Element"}

\* C15: once the batch has started, whatever the device answers to each
\* RPC, the task ends with the response of main(): every RPC of the list
\* was sent, in request order, the results hold one entry per RPC in that
\* order, and the entry of every element that failed has failed = true.
C15_FailureDoesNotAbort ==
    BatchStarted =>
        /\ Responded
        /\ Len(Executed) = Len(Rpcs)
        /\ \A i \in 1..Len(Rpcs) : Executed[i].arg = i
        /\ (Len(Rpcs) # 1 => "results" \in DOMAIN ret)
        /\ Len(Results) = Len(Rpcs)
        /\ \A i \in 1..Len(Rpcs) :
            /\ Results[i].rpc = replace(Rpcs[i])
            /\ ElementFailed(i) => Results[i].failed

\* The module was constructed: its connection, on the local path, is open.
Constructed ==
    /\ op.name = "main"
    /\ conn_type = "local" => \E i \in 1..Len(calls) :
           calls[i].call = "dev.open" /\ calls[i].res = "ok"

\* A list option whose length is not that of the list of RPCs.
Mismatched(option) == option.given /\ Len(option.list) # Len(Rpcs)

\* The options do not pass the checks on the batch lists.
InvalidLists ==
    \/ params.formats.given
        /\ \/ Len(params.formats.list) \notin {1, Len(Rpcs)}
           \/ \E i \in 1..Len(params.formats.list) :
                  params.formats.list[i] \notin {"text", "xml", "json"}
    \/ Mismatched(params.kwargs)
    \/ Mismatched(params.attrs)

\* C16: with N RPC names, a formats list of length 1 gives every result
\* that format, a formats list of length N gives result i its i-th format,
\* and any other length of formats, or a kwargs or attrs list that is given
\* with a length other than N, fails validation: the task fails and no RPC
\* of the batch has been sent.  Lists of the right lengths pass validation.
C16_ListLengths ==
    Constructed /\ params.rpcs.given =>
        /\ InvalidLists =>
            /\ fails # <<>>
            /\ outcome.status \in {"fail_json", "error"}
            /\ Executed = <<>>
        /\ ~InvalidLists => fails = <<>>
        /\ Responded =>
            /\ Len(Results) = Len(Rpcs)
            /\ \A i \in 1..Len(Rpcs) :
                Results[i].format =
                    IF ~params.formats.given THEN "xml"
                    ELSE IF Len(params.formats.list) = 1 THEN params.formats.list[1]
                    ELSE params.formats.list[i]

\* Two RPCs were run with the single format "text", and both results carry it.
C16_Witness ==
    /\ Responded
    /\ Len(Rpcs) = 2
    /\ params.formats = Given(<<"text">>)
    /\ Len(Results) = 2
    /\ Results[1].format = "text"
    /\ Results[2].format = "text"

\* What `calls` holds besides calls on the device: the reports of the task
\* and the requests handed to the broker that reach no device.
Reports == {"fail_json", "exit_json"}

BrokerRequests == {"get_connection", "_pyez_conn.close_configuration"}

\* The task failed on a check of its options: the first failure it reported
\* is not that of opening the connection.
ValidationError ==
    /\ op.name = "main"
    /\ fails # <<>>
    /\ fails[1][1] # "Unable to make a PyEZ connection"

\* C17: on a run that ends in a validation error of the options (mismatched
\* batch-list lengths, invalid format), no connection has been opened and no
\* other call on the device has taken place.
C17_ValidationBeforeDevice ==
    ValidationError =>
        \A i \in 1..Len(calls) : calls[i].call \in Reports \cup BrokerRequests

\* open_configuration was called and found no session open.
CalledOpenConfiguration == op.name = "open_configuration" /\ op.before = None

InvalidArguments ==
    \/ op.mode \notin FiveModes
    \/ op.inst # None /\ op.mode # "ephemeral"

\* C18: a call of open_configuration that finds no session open validates
\* its arguments: with a mode outside the five modes, or an ephemeral
\* instance given with a mode other than ephemeral, the task fails and no
\* lock or open-configuration call is issued; with valid arguments and a
\* closed connection, the lock or open-configuration call is issued only
\* after the connection has been opened.
C18_ArgumentsValidated ==
    CalledOpenConfiguration =>
        /\ InvalidArguments =>
            /\ outcome.status \in {"fail_json", "error"}
            /\ Acquires = {}
        /\ ~InvalidArguments /\ conn_type = "local" /\ op.dev = None =>
            \A i \in Acquires :
                \E j \in 1..(i - 1) : calls[j].call = "dev.open" /\ calls[j].res = "ok"

(***************************************************************************)
(* The ignore-warning filter (SpecIgnoreWarning).                          *)
(***************************************************************************)
\* The open-configuration calls made by open_configuration, on the device
\* or through the broker.
OpenConfigurationCalls ==
    {i \in 1..Len(calls) :
        calls[i].call \in {"rpc.open_configuration", "_pyez_conn.open_configuration"}}

\* The filter makes the call ignore the warning with this text: it is True,
\* which ignores every warning, or a list that holds the text.
Ignores(filter, text) ==
    \/ filter.type = "bool" /\ filter.b
    \/ filter.type = "list" /\ \E j \in 1..Len(filter.list) : filter.list[j] = text

\* C19: whatever ignore_warning the caller gives (None, True, False, a
\* string, a list of strings), the filter that open_configuration passes to
\* the open-configuration call of the modes private, dynamic, batch and
\* ephemeral covers the text "uncommitted changes will be discarded on exit"
\* and every string the caller gave.
C19_FilterIncludesBuiltIn ==
    op.name = "open_configuration" /\ op.mode # "exclusive" =>
        \A i \in OpenConfigurationCalls :
            /\ Ignores(calls[i].arg.ignore_warning, UncommittedChanges)
            /\ \A j \in 1..Len(op.ignore_warning.list) :
                Ignores(calls[i].arg.ignore_warning, op.ignore_warning.list[j])

(***************************************************************************)
(* The timeout of a commit (SpecCommit).                                   *)
(***************************************************************************)
\* C20: the timeout that commit_configuration passes to the commit is the
\* timeout the caller gave when the caller gave one; when the caller gave
\* none it is, on the local path with a timeout set on the connection, the
\* timeout of the connection.
C20_CommitTimeout ==
    op.name = "commit_configuration" =>
        \A i \in Idx("config.commit") :
            IF op.timeout.given THEN calls[i].arg = op.timeout.value
            ELSE conn_type = "local" /\ params.timeout # 0
                     => calls[i].arg = params.timeout

(***************************************************************************)
(* Closing the connection.                                                 *)
(***************************************************************************)
Teardowns == Idx("dev.close")

\* C21: after close() the stored device handle is absent, whether the
\* teardown succeeded or not; a ConnectError or RpcError of the teardown is
\* swallowed when raise_exceptions is false and raised when it is true; and
\* the close(), exit_json or fail_json that follows a close() attempts no
\* teardown.
C21_CloseForgetsHandleFirst ==
    /\ [](op.name = "close" =>
            /\ dev = None
            /\ \A i \in Teardowns :
                   calls[i].res \in {"ConnectError", "RpcError"} =>
                       raised = IF op.flag THEN calls[i].res ELSE None)
    /\ [][op.name = "close" /\ op'.name \in {"close", "exit_json", "fail_json"}
              => \A i \in 1..Len(calls') : calls'[i].call # "dev.close"]_vars

\* A close() made after a close() whose teardown failed: it finds the handle
\* absent and attempts no teardown.
C21_Witness ==
    /\ conn_type = "local"
    /\ op.name = "close"
    /\ op.dev = None
    /\ dev = None
    /\ calls = <<>>
    /\ outcome.status = "running"

\* open() was called with no handle stored and could not establish the
\* session.
OpenFailed == op.name = "open" /\ op.dev = None /\ fails # <<>>

\* C22: when open() fails to establish the session, the failure is reported
\* and the stored device handle and the stored session reference are, up to
\* and including the report, what they were before the call: the handle is
\* absent all along, so the cleanup of the report finds nothing to tear
\* down.
C22_FailedOpenLeavesNoHandle ==
    OpenFailed =>
        /\ outcome.status = "fail_json"
        /\ dev = None
        /\ config.mode = op.before
        /\ Teardowns = {}

(***************************************************************************)
(* The software workflow (SpecSoftware).                                   *)
(***************************************************************************)
\* The reboot call made on the local path timed out.
RebootTimedOut ==
    /\ op.name = "main"
    /\ conn_type = "local"
    /\ \E i \in Idx("sw.reboot") : calls[i].res = "RpcTimeoutError"

\* C23: when the reboot call times out on the local path, the connection is
\* then closed; if that close raises a connection, RPC or timeout error the
\* task ends reporting no failure, and if the close completes cleanly the
\* task ends reporting a failure.
C23_DisconnectOnReboot ==
    RebootTimedOut =>
        \E i \in Teardowns :
            /\ \A j \in Idx("sw.reboot") : j < i
            /\ calls[i].res \in {"ConnectError", "RpcError", "TimeoutExpiredError"}
                   => outcome.status = "exit_json" /\ ~ret.failed
            /\ calls[i].res = "ok" => outcome.status = "fail_json"

(***************************************************************************)
(* The end-to-end scenario.                                                *)
(***************************************************************************)
\* The states in which the scenario can end when it is run from state s:
\* open the connection if it is closed, open an exclusive session, load
\* with action merge, check, commit, close the session, close the
\* connection.  A step is run only if the one before it returned.
Scenario(s) ==
    LET S1 == IF s.conn_type = "local" /\ s.dev = None THEN open(s) ELSE {s}
        S2 == UNION { IF x.raised # None THEN {x}
                      ELSE open_configuration(x, "exclusive", PyNone, None) : x \in S1 }
        S3 == UNION { IF x.raised # None THEN {x}
                      ELSE load_configuration(x, "merge") : x \in S2 }
        S4 == UNION { IF x.raised # None THEN {x}
                      ELSE check_configuration(x) : x \in S3 }
        S5 == UNION { IF x.raised # None THEN {x}
                      ELSE commit_configuration(x, DefaultTimeout) : x \in S4 }
        S6 == UNION { IF x.raised # None THEN {x}
                      ELSE close_configuration(x) : x \in S5 }
    IN  UNION { IF x.raised # None THEN {x} ELSE close(x, FALSE) : x \in S6 }

\* Every call made on the device succeeded.
AllOk(t) == \A i \in 1..Len(t.calls) : t.calls[i].res = "ok"

CallsOf(t, call) == {i \in 1..Len(t.calls) : t.calls[i].call = call}

\* The scenario ended without failure, with the session and the connection
\* closed, after exactly one lock and one unlock, the unlock after the
\* commit and before the close of the connection.
Succeeded(t) ==
    /\ t.raised = None
    /\ t.outcome.status = "running"
    /\ SessionOf(t) = None
    /\ t.config = NoConfig
    /\ t.dev = None
    /\ t.held = 0
    /\ Cardinality(CallsOf(t, "lock")) = 1
    /\ Cardinality(CallsOf(t, "unlock")) = 1
    /\ Cardinality(CallsOf(t, "config.commit")) = 1
    /\ \A u \in CallsOf(t, "unlock") :
        /\ \A l \in CallsOf(t, "lock") : l < u
        /\ \A c \in CallsOf(t, "config.commit") : c < u
        /\ \A d \in CallsOf(t, "dev.close") : u < d
    /\ t.conn_type = "local" => Cardinality(CallsOf(t, "dev.close")) = 1

\* The task is running with no session open.
ScenarioStart == outcome.status = "running" /\ SessionMode = None /\ held = 0

\* C24: run from any state of a running task with no session open, the
\* scenario in which every device call succeeds ends without failure, with
\* the session closed and the connection closed, after exactly one lock and
\* one unlock, the unlock after the commit and before the connection close.
C24_EndToEndSuccess ==
    ScenarioStart =>
        /\ \E t \in Scenario(Self) : AllOk(t)
        /\ \A t \in Scenario(Self) : AllOk(t) => Succeeded(t)

\* The scenario starts on a local connection that has been closed, and one
\* of its runs opens the connection and succeeds.
C24_Witness ==
    /\ ScenarioStart
    /\ conn_type = "local"
    /\ dev = None
    /\ \E t \in Scenario(Self) :
        /\ AllOk(t)
        /\ Succeeded(t)
        /\ t.calls[1].call = "dev.open"

\* The construction runs on options that name a host and a user and use no
\* console string.
PlainOptions ==
    /\ op.name = "__init__"
    /\ outcome.status = "running"
    /\ ~params.console.given
    /\ ~falsy(params.host)
    /\ ~falsy(params.user)

\* The port the options give can be used in their mode.
PortUsable ==
    \/ params.port = NoneVal
    \/ params.mode = "serial"
    \/ params.port.kind = "str" /\ int(params.port.s).ok

\* The construction ended in a failure without making a connection.
Rejected ==
    /\ outcome.status \in {"fail_json", "error"}
    /\ \A i \in 1..Len(calls) : calls[i].call \notin {"dev.open", "get_connection"}
    /\ dev = None

\* C25: with no port given the port becomes 830 in the default mode, 23 in
\* telnet mode and /dev/ttyUSB0 in serial mode; in telnet and serial mode a
\* baud that is not given becomes 9600 and attempts not given become 10;
\* in the default mode a baud or attempts that is given is rejected: the
\* construction fails without making a connection, on the local path with
\* the failure report that names the option.
C25_ModeDependentDefaults ==
    [][PlainOptions =>
        /\ params.port = NoneVal =>
              params'.port = IF params.mode = "telnet" THEN IntVal(23)
                             ELSE IF params.mode = "serial"
                             THEN StrVal(<<"/", "d", "e", "v", "/", "t", "t", "y",
                                           "U", "S", "B", "0">>)
                             ELSE IntVal(830)
        /\ params.mode \in {"telnet", "serial"} /\ PortUsable =>
              /\ params'.baud = IF params.baud = NoneVal THEN IntVal(9600)
                                ELSE params.baud
              /\ params'.attempts = IF params.attempts = NoneVal THEN IntVal(10)
                                    ELSE params.attempts
        /\ /\ params.mode = None
           /\ PortUsable
           /\ params.baud # NoneVal \/ params.attempts # NoneVal
           => /\ Rejected'
              /\ conn_type = "local" =>
                    /\ outcome'.status = "fail_json"
                    /\ outcome'.msg \in
                          {<<"The baud option is not valid when mode == none.">>,
                           <<"The attempts option is not valid when mode == none.">>}
    ]_vars

\* A module was constructed in telnet mode on the defaults of that mode.
C25_Witness ==
    /\ op.name = "constructed"
    /\ outcome.status = "running"
    /\ params.mode = "telnet"
    /\ params.port = IntVal(TelnetPort)
    /\ params.baud = IntVal(DefaultBaud)
    /\ params.attempts = IntVal(DefaultAttempts)
    /\ dev = "Device"

InstallCalls ==
    {i \in 1..Len(calls) : calls[i].call \in {"sw.install", "_pyez_conn.software_api"}}

RebootCalls ==
    {i \in 1..Len(calls) : calls[i].call \in {"sw.reboot", "_pyez_conn.reboot_api"}}

\* Some routing engine examined runs another version than the target.
VersionsDiffer ==
    \E re \in DOMAIN params.facts.versions :
        params.facts.versions[re] # params.target_version

\* C26: an install or a reboot is called only when the module is not in
\* check mode and either no target version is known or some routing engine
\* examined runs another version; a reboot only after an install.  When the
\* versions are the same the module ends with changed false and failed
\* false, and in check mode with differing versions with changed true, in
\* both cases without a call of install or reboot.
C26_InstallGating ==
    Constructed =>
        /\ InstallCalls \cup RebootCalls # {} =>
              /\ ~params.check_mode
              /\ params.target_version = None \/ VersionsDiffer
        /\ \A r \in RebootCalls : \E i \in InstallCalls : i < r
        /\ params.target_version # None /\ ~VersionsDiffer =>
              /\ outcome.status = "exit_json"
              /\ ~ret.changed
              /\ ~ret.failed
              /\ InstallCalls \cup RebootCalls = {}
        /\ params.check_mode /\ params.target_version # None /\ VersionsDiffer =>
              /\ outcome.status = "exit_json"
              /\ ret.changed
              /\ InstallCalls \cup RebootCalls = {}

\* In check mode, with two routing engines examined of which one runs the
\* target version, the module ended with changed true and no install.
C26_Witness ==
    /\ Constructed
    /\ params.check_mode
    /\ params.target_version # None
    /\ DOMAIN params.facts.versions = {"re0", "re1"}
    /\ params.facts.versions["re0"] = params.target_version
    /\ params.facts.versions["re1"] # params.target_version
    /\ outcome.status = "exit_json"
    /\ ret.changed
    /\ InstallCalls = {}

\* On the local path a release call of this operation failed with an error
\* that close_configuration handles.
ReleaseFailed ==
    /\ conn_type = "local"
    /\ \E i \in Releases : calls[i].res \in {"ConnectError", "RpcError"}

\* C27: when the release made by close_configuration fails, the session is
\* no longer recorded, the release was attempted exactly once, and the
\* operation ends in the failure report of close_configuration after at
\* most one fail_json nested in another.
C27_FailedReleaseTerminates ==
    ReleaseFailed =>
        /\ config = NoConfig
        /\ Cardinality(Releases) = 1
        /\ outcome.status = "fail_json"
        /\ outcome.msg[1] = "Unable to close the configuration"
        /\ Len(fails) \in {1, 2}
        /\ fails[Len(fails)] = outcome.msg

\* A failure reported while a session was open: the release made by its
\* fail_json failed too, and the nested fail_json ended the task.
C27_Witness ==
    /\ ReleaseFailed
    /\ Len(fails) = 2
    /\ fails[1][1] # "Unable to close the configuration"
    /\ outcome.status = "fail_json"
    /\ config = NoConfig

\* The device call that acquires, and the one that releases, a session of
\* the given mode.
AcquireOf(mode) == IF mode = "exclusive" THEN "lock" ELSE "rpc.open_configuration"

ReleaseOf(mode) == IF mode = "exclusive" THEN "unlock" ELSE "rpc.close_configuration"

\* C28: a session recorded by open_configuration in a mode was acquired by
\* the call of that mode (lock for exclusive, open-configuration for the
\* other four), which succeeded; every release call is the one of the mode
\* of the session recorded before the operation (unlock for exclusive,
\* close-configuration for the other four); and a session is recorded, so a
\* release is issued, only after an acquisition that succeeded and has not
\* been released.
C28_ReleaseMatchesAcquisition ==
    /\ op.name = "open_configuration" /\ op.before = None /\ SessionMode # None =>
          /\ SessionMode = op.mode
          /\ \A i \in Acquires : calls[i].call = AcquireOf(op.mode)
          /\ \E i \in Acquires : calls[i].res = "ok"
    /\ \A i \in Releases :
          /\ op.before \in CONFIG_MODE_CHOICES
          /\ calls[i].call = ReleaseOf(op.before)
          /\ \A j \in Acquires : i < j
    /\ SessionMode # None => held = 1
    /\ held >= 0

\* A private session was closed with a close-configuration call that
\* succeeded.
C28_Witness ==
    /\ op.name = "close_configuration"
    /\ op.before = "private"
    /\ SessionMode = None
    /\ held = 0
    /\ \E i \in Releases :
          calls[i].call = "rpc.close_configuration" /\ calls[i].res = "ok"

\* On the local path the lock or open-configuration call of
\* open_configuration failed.
AcquireFailed ==
    /\ op.name = "open_configuration"
    /\ conn_type = "local"
    /\ \E i \in Acquires : calls[i].res \in {"ConnectError", "RpcError"}

\* C29: when the lock or open-configuration call of open_configuration
\* fails, the operation ends in the failure report that names the mode, no
\* session is recorded, and the cleanup issues no unlock and no
\* close-configuration call: after the failed call it only closes the
\* connection.
C29_FailedOpenReleasesNothing ==
    AcquireFailed =>
        /\ outcome.status = "fail_json"
        /\ outcome.msg[1] = "Unable to open the configuration in mode"
        /\ outcome.msg[2] = op.mode
        /\ config = NoConfig
        /\ held = 0
        /\ Releases = {}
        /\ dev = None
        /\ \A i \in Acquires : \A j \in (i + 1)..Len(calls) :
              calls[j].call \in {"dev.close", "fail_json"}
        /\ \E j \in 1..Len(calls) : calls[j].call = "dev.close"

\* The open-configuration call of a private session failed and the
\* failure was reported after the connection had been closed.
C29_Witness ==
    /\ AcquireFailed
    /\ op.mode = "private"
    /\ outcome.status = "fail_json"
    /\ \E i \in Acquires : \E j \in Idx("dev.close") :
          i < j /\ calls[i].call = "rpc.open_configuration"

\* The files opened by the task so far, and those opened for an output
\* other than a diff.
Opens == {i \in 1..Len(calls) : calls[i].call = "open"}

OutputOpens == {i \in Opens : calls[i].arg.name # "diff"}

\* C30: within one task, with dest set the first save of an output opens
\* the file of dest in overwrite mode and every later one in append mode,
\* so the file holds the texts of all of them in order; with only dest_dir
\* set every save of an output overwrites its file; a diff is always
\* written in overwrite mode, to diffs_file or under dest_dir; and with no
\* option set for it a save opens no file and leaves every file as it
\* was.
C30_WriteModes ==
    /\ \A i \in OutputOpens :
          IF params.dest # None
          THEN /\ calls[i].arg.path = "out.txt"
               /\ calls[i].arg.mode =
                      IF \E j \in OutputOpens : j < i THEN "ab" ELSE "wb"
          ELSE /\ params.dest_dir # None
               /\ calls[i].arg.mode = "wb"
    /\ \A i \in Opens \ OutputOpens :
          /\ calls[i].arg.mode = "wb"
          /\ calls[i].arg.path = IF params.diffs_file # None THEN params.diffs_file
                                 ELSE "dir/r1.diff"
          /\ params.diffs_file # None \/ params.dest_dir # None
    /\ params.dest # None /\ (\A i \in OutputOpens : calls[i].res = "ok") /\ OutputOpens # {} =>
          /\ Len(files["out.txt"].data) = Cardinality(OutputOpens)
          /\ \A i \in OutputOpens :
                files["out.txt"].data[Cardinality({j \in OutputOpens : j <= i})]
                    = calls[i].arg.text
    /\ \A i \in Opens :
          calls[i].res = "ok" /\ calls[i].arg.mode = "wb"
          /\ (\A j \in Opens : j > i => calls[j].arg.path # calls[i].arg.path)
          => files[calls[i].arg.path].data = <<calls[i].arg.text>>
    /\ params.dest = None /\ params.dest_dir = None /\ params.diffs_file = None =>
          /\ Opens = {}
          /\ \A path \in DOMAIN files : files[path] \in {NoFile, OldFile}

\* Three outputs were saved to the file of dest, which existed before: the
\* first save replaced its content and the two later ones were appended.
C30_Witness ==
    /\ op.name = "save_text_output"
    /\ params.dest # None
    /\ Cardinality(OutputOpens) = 3
    /\ \A i \in OutputOpens : calls[i].res = "ok"
    /\ Len(files["out.txt"].data) = 3
    /\ "old" \notin {files["out.txt"].data[k] : k \in 1..3}
    /\ files["d.diff"] = OldFile

\* C31: on the local path, whenever a configuration session is recorded
\* the device handle is present.
C31_SessionImpliesConnection ==
    conn_type = "local" /\ config # NoConfig => dev # None

\* C32: on the local path close_configuration ends with the session
\* reference cleared, and either returns or reports the failure to close the
\* configuration; it never ends in an exception nobody handles.
C32_CloseConfigurationNeverRaises ==
    op.name = "close_configuration" /\ conn_type = "local" =>
        /\ config = NoConfig
        /\ \/ outcome.status = "running" /\ raised = None
           \/ /\ outcome.status = "fail_json"
              /\ outcome.msg[1] = "Unable to close the configuration"

\* fail_json was invoked by the construction before any connection or
\* broker was asked for.
FailedBeforeConnection ==
    /\ op.name = "constructed"
    /\ fails # <<>>
    /\ \A i \in 1..Len(calls) : calls[i].call \notin {"dev.open", "get_connection"}

\* C33: a fail_json invoked during the construction, before the connection
\* or the session broker is established, ends the task with the report of
\* its own message, on the local and on the non-local path.
C33_ConstructionFailureDelivered ==
    FailedBeforeConnection =>
        /\ outcome.status = "fail_json"
        /\ outcome.msg = fails[1]

\* C34: in the response of a batch, an element with failed = false was
\* built from the response that its own RPC call returned: the call of that
\* element succeeded, and the response used is the one of that call.
C34_OwnResponseOnly ==
    Responded =>
        \A i \in 1..Len(Results) :
            ~Results[i].failed =>
                /\ Results[i].stdout.of = i
                /\ \E j \in 1..Len(calls) :
                      /\ calls[j].call \in RpcCalls
                      /\ calls[j].arg = i
                      /\ calls[j].res = "ok"

\* The four ways a checksum-verified transfer can end.
EndedAlreadyPresent ==
    /\ outcome.status = "running"
    /\ raised = None
    /\ ret = AlreadyPresent
    /\ AnyTransfer = {}

EndedTransferred ==
    /\ outcome.status = "running"
    /\ raised = None
    /\ ret = PushedOK
    /\ Cardinality(Transfers) = 1
    /\ Cardinality(Idx(DestCall)) = 2
    /\ files.local = files.remote

EndedReported == outcome.status = "fail_json"

EndedPropagated == outcome.status = "error" /\ raised \notin {None, "SystemExit"}

\* C35: a checksum-verified put or get makes at most one transfer call,
\* computes the checksum of the source at most once and the checksum of the
\* destination at most twice, and ends in exactly one of four ways: the file
\* was already present and nothing was transferred, the file was transferred
\* and verified, a failure was reported through fail_json, or an error was
\* propagated.
C35_OneTransferFourOutcomes ==
    op.name \in VerifiedOps =>
        /\ Cardinality(AnyTransfer) <= 1
        /\ Cardinality(Idx(SourceCall)) <= 1
        /\ Cardinality(Idx(DestCall)) <= 2
        /\ Cardinality({k \in 1..4 :
                           <<EndedAlreadyPresent, EndedTransferred,
                             EndedReported, EndedPropagated>>[k]}) = 1

\* A verified get through the broker transferred the file and found the two
\* checksums equal.
C35_Witness ==
    /\ op.name = "scp_file_copy_get"
    /\ conn_type = "pyez"
    /\ EndedTransferred
    /\ Cardinality(AnyTransfer) = 1

\* C36: on the local path, whatever the reboot call returns or raises, the
\* next thing done on the device is the assignment of the timeout the
\* device had before, and when that timeout was above 5 seconds the call
\* was made under a timeout of 5.
C36_TimeoutRestored ==
    op.name = "main" /\ conn_type = "local" =>
        \A i \in Idx("sw.reboot") :
            /\ i < Len(calls)
            /\ calls[i + 1].call = "dev.timeout"
            /\ calls[i + 1].arg = params.timeout
            /\ params.timeout > 5 =>
                  /\ i > 1
                  /\ calls[i - 1].call = "dev.timeout"
                  /\ calls[i - 1].arg = 5

\* The reboot call raised an RPC error under the lowered timeout, and the
\* timeout of 30 seconds was assigned again before the failure was
\* reported.
C36_Witness ==
    /\ op.name = "main"
    /\ conn_type = "local"
    /\ params.timeout = DefaultTimeout
    /\ ~params.facts.vmhost
    /\ outcome.status = "fail_json"
    /\ \E i \in Idx("sw.reboot") :
          /\ calls[i].res = "RpcError"
          /\ calls[i + 1].call = "dev.timeout"
          /\ calls[i + 1].arg = DefaultTimeout

\* On the local path the reboot call raised on a vmhost, where the
\* exception is swallowed.
RebootSwallowed ==
    /\ op.name = "main"
    /\ conn_type = "local"
    /\ params.facts.vmhost
    /\ \E i \in Idx("sw.reboot") : calls[i].res \notin {"ok", "None"}

\* C37: when the exception of the reboot call is swallowed because the
\* device is a vmhost, the module ends in the response that reports the
\* reboot or in a failure reported through fail_json, not in an exception
\* nobody handles.
C37_SwallowedRebootHasOutcome ==
    RebootSwallowed => outcome.status \in {"exit_json", "fail_json"}

\* C38: the close of a device handle is only ever called on a handle whose
\* open succeeded; when open() fails with a connection error, the cleanup
\* makes no close call on the handle it created.
C38_TeardownOnlyOnOpenedHandle ==
    \A i \in Teardowns : calls[i].arg = "connected"
====
